---- MODULE Spec2Model ----
(***************************************************************************)
(* Model of the goflow session execution engine (flows/engine/engine.go):  *)
(* StartFlow, ResumeFlow, continueRunUntilWait, enterNode, resumeNode and  *)
(* pickNodeExit, together with the run registry of the session environment *)
(* and the snakified results map.                                          *)
(***************************************************************************)
EXTENDS Integers, Sequences, FiniteSets, TLC

(***************************************************************************)
(* Bounds of the model.                                                    *)
(***************************************************************************)
MaxNodes == 2
MaxActions == 2
MaxExits == 2
MaxCalls == 2

(***************************************************************************)
(* UUIDs.  The n-th node of a flow has the n-th node UUID, the n-th exit   *)
(* of a node the n-th exit UUID (UUIDs are unique within their scope).     *)
(***************************************************************************)
NodeNames == <<"n1", "n2", "n3", "n4">>
ExitNames == <<"e1", "e2", "e3", "e4">>
ExitLabels == <<"Red", "Blue", "Green", "Other">>

noDestination == ""
NoExit == ""
NodeUUIDs == {NodeNames[i] : i \in 1..MaxNodes}
\* an exit UUID that is no exit of any node
foreignExit == "ex"
\* an exit leads nowhere or to one of the node UUIDs; in a flow of fewer than
\* MaxNodes nodes some of these name no node of the flow
Destinations == NodeUUIDs \cup {noDestination}

(***************************************************************************)
(* Run statuses.                                                           *)
(***************************************************************************)
RunActive == "active"
RunCompleted == "completed"
RunErrored == "errored"

(***************************************************************************)
(* utils.Snakify.  A string is a sequence of characters; the alphabet has  *)
(* a representative of every class the function distinguishes.             *)
(***************************************************************************)
Letters == {"a", "b", "A", "B"}
Digits == {"1"}
Whitespace == {" "}
Chars == Letters \cup Digits \cup Whitespace \cup {"_", "-"}

\* strings.TrimSpace
RECURSIVE TrimLeft(_)
TrimLeft(s) ==
    IF s # <<>> /\ Head(s) \in Whitespace THEN TrimLeft(Tail(s)) ELSE s

RECURSIVE TrimRight(_)
TrimRight(s) ==
    IF s # <<>> /\ s[Len(s)] \in Whitespace
    THEN TrimRight(SubSeq(s, 1, Len(s) - 1))
    ELSE s

TrimSpace(s) == TrimRight(TrimLeft(s))

\* the character class of the regular expression [^\p{L}\d_]
snakedChars(c) == c \notin (Letters \cup Digits \cup {"_"})

RECURSIVE SkipSnaked(_)
SkipSnaked(s) ==
    IF s # <<>> /\ snakedChars(Head(s)) THEN SkipSnaked(Tail(s)) ELSE s

\* snakedChars.ReplaceAllString(s, "_"): every maximal run becomes one "_"
RECURSIVE ReplaceAllString(_)
ReplaceAllString(s) ==
    IF s = <<>> THEN <<>>
    ELSE IF snakedChars(Head(s)) THEN <<"_">> \o ReplaceAllString(SkipSnaked(s))
    ELSE <<Head(s)>> \o ReplaceAllString(Tail(s))

LowerChar(c) == IF c = "A" THEN "a" ELSE IF c = "B" THEN "b" ELSE c

ToLower(s) == [i \in 1..Len(s) |-> LowerChar(s[i])]

Snakify(text) == ToLower(ReplaceAllString(TrimSpace(text)))

(***************************************************************************)
(* Flow definitions.  A flow is its ordered list of nodes; a node has a    *)
(* number of actions, possibly a wait, possibly a router with a result     *)
(* name, and an ordered list of exits.                                     *)
(***************************************************************************)
NoRouter == [present |-> FALSE, name |-> <<>>]
\* result names; the names of different nodes snakify to the same key
ResultNames == <<<<"A", " ", "b">>, <<" ", "a", "-", "B">>, <<"a", "_", "b">>, <<"a", " ", "B", " ">>>>
RoutersAt(i) ==
    {NoRouter, [present |-> TRUE, name |-> <<>>], [present |-> TRUE, name |-> ResultNames[i]]}

\* a node has no exits or MaxExits exits; the first exit leads anywhere, the
\* exits after it are terminal
ExitLists ==
    {<<>>} \cup
    {[i \in 1..MaxExits |-> [uuid |-> ExitNames[i], name |-> ExitLabels[i],
                             destination |-> IF i = 1 THEN d ELSE noDestination]] :
        d \in Destinations}

NodesAt(i) ==
    {[uuid |-> NodeNames[i], actions |-> a, wait |-> w, router |-> r, exits |-> e] :
        a \in {0, MaxActions}, w \in BOOLEAN, r \in RoutersAt(i), e \in ExitLists}

RECURSIVE FlowsOfLen(_)
FlowsOfLen(k) ==
    IF k = 0 THEN {<<>>}
    ELSE {Append(f, n) : f \in FlowsOfLen(k - 1), n \in NodesAt(k)}

\* every node after the entry node is the destination of some exit
Connected(f) ==
    \A i \in 2..Len(f) :
        \E j \in 1..Len(f), k \in 1..MaxExits :
            /\ j # i
            /\ k <= Len(f[j].exits)
            /\ f[j].exits[k].destination = f[i].uuid

Flows == {f \in UNION {FlowsOfLen(k) : k \in 0..MaxNodes} : Connected(f)}

\* Flow.GetNode: the node with the given UUID, or nil
NilNode == [uuid |-> "", actions |-> 0, wait |-> FALSE, router |-> NoRouter, exits |-> <<>>]
GetNode(f, uuid) ==
    IF \E i \in 1..Len(f) : f[i].uuid = uuid
    THEN f[CHOOSE i \in 1..Len(f) : f[i].uuid = uuid]
    ELSE NilNode

(***************************************************************************)
(* Events.                                                                 *)
(***************************************************************************)
NoEvent == [type |-> "none", text |-> ""]
MsgEvent == [type |-> "msg_received", text |-> ""]
WaitEvent == [type |-> "msg_wait", text |-> ""]
FlowExitEvent == [type |-> "flow_exited", text |-> ""]
SaveResultEvent == [type |-> "save_result", text |-> ""]
ErrorEvent(text) == [type |-> "error", text |-> text]

LoopError == "Flow loop detected, stopping execution before entering"
DestinationError == "Unable to find destination"
RouteError == "router error"
NodeError == "cannot resume at node that no longer exists"

(***************************************************************************)
(* Runs and steps.  A run is a record; the step the engine holds is always *)
(* the last step of the run's path.  History fields: a step's executed is  *)
(* the number of actions executed for it and failed whether the last of    *)
(* them returned an error; a run's saves counts the calls of Results.Save  *)
(* and picked the exits picked without a router error.                     *)
(***************************************************************************)
NoRun == 0

\* languages, and the contacts a session may run for: none, a contact without
\* a language, a contact with a language other than the flow's
NilLanguage == ""
FlowLanguage == "eng"
NoContact == [present |-> FALSE, language |-> NilLanguage]
Contacts ==
    {NoContact, [present |-> TRUE, language |-> NilLanguage],
     [present |-> TRUE, language |-> "fra"]}

\* Flow.CreateRun; the run is created on the given session
CreateRun(c, parent, input, session) ==
    [parent |-> parent, status |-> RunActive, wait |-> FALSE, input |-> input,
     path |-> <<>>, results |-> {}, saves |-> 0, picked |-> 0,
     contact |-> c, language |-> NilLanguage, session |-> session]

\* FlowRun.SetSession
SetSession(run, session) == [run EXCEPT !.session = session]

\* FlowRun.SetLanguage
SetLanguage(run, lang) == [run EXCEPT !.language = lang]

\* initTranslations: the run's language is the language of its contact when
\* it has a contact, else the language of the flow
initTranslations(run) ==
    IF run.contact # NoContact
    THEN SetLanguage(run, run.contact.language)
    ELSE SetLanguage(run, FlowLanguage)

\* FlowRun.Exit
Exit(run, status) == [run EXCEPT !.status = status]

\* FlowRun.CreateStep
CreateStep(run, node) ==
    [run EXCEPT !.path = Append(@, [node |-> node.uuid, exit |-> NoExit,
                                    events |-> <<>>, executed |-> 0,
                                    failed |-> FALSE])]

\* FlowRun.AddEvent
AddEvent(run, e) ==
    [run EXCEPT !.path[Len(run.path)].events = Append(@, e)]

\* FlowRun.AddError: the error is logged on the step and the run is terminated
AddError(run, text) ==
    [AddEvent(run, ErrorEvent(text)) EXCEPT !.status = RunErrored]

\* Step.Leave
Leave(run, exitUUID) ==
    [run EXCEPT !.path[Len(run.path)].exit = exitUUID]

\* FlowRun.IsComplete
IsComplete(run) == run.status = RunCompleted

\* Wait.Begin: the wait becomes the run's pending wait
Begin(run) == [AddEvent(run, WaitEvent) EXCEPT !.wait = TRUE]

\* Wait.End: the event is recorded and the pending wait is cleared
End(run, e) == [AddEvent(run, e) EXCEPT !.wait = FALSE]

\* a save that stores the result under the name as given
Save_RawKey(run, nodeUUID, name, category) ==
    [run EXCEPT !.results = {r \in @ : r.key # name} \cup
                            {[key |-> name, name |-> name,
                              node_uuid |-> nodeUUID, category |-> category]},
                !.saves = @ + 1]

\* Results.Save: the result is stored under the snakified name
Save(run, nodeUUID, name, category) ==
    [run EXCEPT !.results = {r \in @ : r.key # Snakify(name)} \cup
                            {[key |-> Snakify(name), name |-> name,
                              node_uuid |-> nodeUUID, category |-> category]},
                !.saves = @ + 1]

(***************************************************************************)
(* pickNodeExit.  route is what the node's router returns from PickRoute.  *)
(***************************************************************************)
NoRoute == [exit |-> NoExit, err |-> FALSE]

\* what a router may return: any exit UUID, or an error
PickRoute(node) ==
    {[exit |-> x, err |-> FALSE] :
        x \in {node.exits[i].uuid : i \in 1..Len(node.exits)} \cup {NoExit, foreignExit}}
    \cup {[exit |-> NoExit, err |-> TRUE]}

\* the routes the engine can get for a node
RoutesOf(node) == IF node.router.present THEN PickRoute(node) ELSE {NoRoute}

Max(S) == CHOOSE x \in S : \A y \in S : y <= x

\* an exit choice that saves a result for a router without a result name
pickNodeExit_SaveUnnamed(run, node, route) ==
    LET exits == node.exits
        exitUUID == IF node.router.present THEN route.exit
                    ELSE IF Len(exits) > 0 THEN exits[1].uuid
                    ELSE NoExit
        err == node.router.present /\ route.err
        left == Leave(run, exitUUID)
        matches == {i \in 1..Len(exits) : exitUUID # NoExit /\ exits[i].uuid = exitUUID}
        found == matches # {}
        exitName == IF found THEN exits[Max(matches)].name ELSE ""
        saved == IF node.router.present
                 THEN Save(AddEvent(left, SaveResultEvent), node.uuid,
                           node.router.name, exitName)
                 ELSE left
    IN  IF err
        THEN [run |-> AddError(left, RouteError), destination |-> noDestination,
              err |-> TRUE]
        ELSE IF ~found
        THEN [run |-> [saved EXCEPT !.picked = @ + 1], destination |-> noDestination,
              err |-> exitUUID # NoExit]
        ELSE [run |-> [saved EXCEPT !.picked = @ + 1],
              destination |-> exits[Max(matches)].destination, err |-> FALSE]

\* an exit choice that leaves a node without router through its last exit
pickNodeExit_LastExit(run, node, route) ==
    LET exits == node.exits
        exitUUID == IF node.router.present THEN route.exit
                    ELSE IF Len(exits) > 0 THEN exits[Len(exits)].uuid
                    ELSE NoExit
        err == node.router.present /\ route.err
        left == Leave(run, exitUUID)
        matches == {i \in 1..Len(exits) : exitUUID # NoExit /\ exits[i].uuid = exitUUID}
        found == matches # {}
        exitName == IF found THEN exits[Max(matches)].name ELSE ""
        saved == IF node.router.present /\ node.router.name # <<>>
                 THEN Save(AddEvent(left, SaveResultEvent), node.uuid,
                           node.router.name, exitName)
                 ELSE left
    IN  IF err
        THEN [run |-> AddError(left, RouteError), destination |-> noDestination,
              err |-> TRUE]
        ELSE IF ~found
        THEN [run |-> [saved EXCEPT !.picked = @ + 1], destination |-> noDestination,
              err |-> exitUUID # NoExit]
        ELSE [run |-> [saved EXCEPT !.picked = @ + 1],
              destination |-> exits[Max(matches)].destination, err |-> FALSE]

\* an exit choice that saves the result before it looks at the router's error
pickNodeExit_SaveOnError(run, node, route) ==
    LET exits == node.exits
        exitUUID == IF node.router.present THEN route.exit
                    ELSE IF Len(exits) > 0 THEN exits[1].uuid
                    ELSE NoExit
        err == node.router.present /\ route.err
        left == Leave(run, exitUUID)
        matches == {i \in 1..Len(exits) : exitUUID # NoExit /\ exits[i].uuid = exitUUID}
        found == matches # {}
        exitName == IF found THEN exits[Max(matches)].name ELSE ""
        saved == IF node.router.present /\ node.router.name # <<>>
                 THEN Save(AddEvent(left, SaveResultEvent), node.uuid,
                           node.router.name, exitName)
                 ELSE left
    IN  IF err
        THEN [run |-> AddError(saved, RouteError), destination |-> noDestination,
              err |-> TRUE]
        ELSE IF ~found
        THEN [run |-> [saved EXCEPT !.picked = @ + 1], destination |-> noDestination,
              err |-> exitUUID # NoExit]
        ELSE [run |-> [saved EXCEPT !.picked = @ + 1],
              destination |-> exits[Max(matches)].destination, err |-> FALSE]

pickNodeExit(run, node, route) ==
    LET exits == node.exits
        exitUUID == IF node.router.present THEN route.exit
                    ELSE IF Len(exits) > 0 THEN exits[1].uuid
                    ELSE NoExit
        err == node.router.present /\ route.err
        left == Leave(run, exitUUID)
        matches == {i \in 1..Len(exits) : exitUUID # NoExit /\ exits[i].uuid = exitUUID}
        found == matches # {}
        exitName == IF found THEN exits[Max(matches)].name ELSE ""
        saved == IF node.router.present /\ node.router.name # <<>>
                 THEN Save(AddEvent(left, SaveResultEvent), node.uuid,
                           node.router.name, exitName)
                 ELSE left
    IN  IF err
        THEN [run |-> AddError(left, RouteError), destination |-> noDestination,
              err |-> TRUE]
        ELSE IF ~found
        THEN [run |-> [saved EXCEPT !.picked = @ + 1], destination |-> noDestination,
              err |-> exitUUID # NoExit]
        ELSE [run |-> [saved EXCEPT !.picked = @ + 1],
              destination |-> exits[Max(matches)].destination, err |-> FALSE]

(***************************************************************************)
(* enterNode.  failAt is the first action that returns an error (0: none), *)
(* waitOutcome what the node's wait does.                                  *)
(***************************************************************************)
WaitOutcomes == {"suspend", "end", "begin_error", "get_error", "end_error"}
WaitOutcomesOf(node) == IF node.wait THEN WaitOutcomes ELSE {"none"}

\* an entry that goes on to the exit although the wait has no end event
enterNode_NoSuspend(run, node, event, failAt, waitOutcome, route) ==
    LET created == CreateStep(run, node)
        logged == IF event # NoEvent THEN AddEvent(created, event) ELSE created
        ran == IF failAt > 0 THEN failAt ELSE node.actions
        acted == [logged EXCEPT !.path[Len(logged.path)].executed = ran,
                                !.path[Len(logged.path)].failed = failAt > 0]
        begun == Begin(acted)
    IN  IF failAt > 0
        THEN [run |-> acted, destination |-> noDestination, err |-> TRUE]
        ELSE IF ~node.wait
        THEN pickNodeExit(acted, node, route)
        ELSE IF waitOutcome = "begin_error"
        THEN [run |-> acted, destination |-> noDestination, err |-> TRUE]
        ELSE IF waitOutcome = "get_error"
        THEN [run |-> begun, destination |-> noDestination, err |-> TRUE]
        ELSE IF waitOutcome = "suspend"
        THEN pickNodeExit(begun, node, route)
        ELSE IF waitOutcome = "end_error"
        THEN [run |-> begun, destination |-> noDestination, err |-> TRUE]
        ELSE pickNodeExit(End(begun, MsgEvent), node, route)

enterNode(run, node, event, failAt, waitOutcome, route) ==
    LET created == CreateStep(run, node)
        logged == IF event # NoEvent THEN AddEvent(created, event) ELSE created
        ran == IF failAt > 0 THEN failAt ELSE node.actions
        acted == [logged EXCEPT !.path[Len(logged.path)].executed = ran,
                                !.path[Len(logged.path)].failed = failAt > 0]
        begun == Begin(acted)
    IN  IF failAt > 0
        THEN [run |-> acted, destination |-> noDestination, err |-> TRUE]
        ELSE IF ~node.wait
        THEN pickNodeExit(acted, node, route)
        ELSE IF waitOutcome = "begin_error"
        THEN [run |-> acted, destination |-> noDestination, err |-> TRUE]
        ELSE IF waitOutcome = "get_error"
        THEN [run |-> begun, destination |-> noDestination, err |-> TRUE]
        ELSE IF waitOutcome = "suspend"
        THEN [run |-> begun, destination |-> noDestination, err |-> FALSE]
        ELSE IF waitOutcome = "end_error"
        THEN [run |-> begun, destination |-> noDestination, err |-> TRUE]
        ELSE pickNodeExit(End(begun, MsgEvent), node, route)

(***************************************************************************)
(* resumeNode.                                                             *)
(***************************************************************************)
\* a resume that picks the exit although the wait's End returned an error
resumeNode_PickAnyway(run, node, event, endOk, route) ==
    IF ~node.wait
    THEN [run |-> run, destination |-> noDestination, err |-> TRUE]
    ELSE IF ~endOk
    THEN pickNodeExit(run, node, route)
    ELSE pickNodeExit(End(run, event), node, route)

resumeNode(run, node, event, endOk, route) ==
    IF ~node.wait
    THEN [run |-> run, destination |-> noDestination, err |-> TRUE]
    ELSE IF ~endOk
    THEN [run |-> run, destination |-> noDestination, err |-> TRUE]
    ELSE pickNodeExit(End(run, event), node, route)

(***************************************************************************)
(* State.                                                                  *)
(*   flow         the flow definition (immutable after load)               *)
(*   runs         the runs created so far; a run's UUID is its index       *)
(*   envRuns      sessionEnvironment.runs, the UUIDs registered by AddRun  *)
(*   pc           "idle" between calls, "loop" inside continueRunUntilWait *)
(*   cur          the run the engine is executing                          *)
(*   caller       "start" or "resume": who called continueRunUntilWait     *)
(*   destination, hasStep, event, visited, err                             *)
(*                the locals of continueRunUntilWait (hasStep is           *)
(*                step != nil)                                             *)
(*   ret          what the last call returned to the driver                *)
(*   calls        number of StartFlow and ResumeFlow calls so far          *)
(*   contact      the contact the session runs for                         *)
(*   exchange     the webhook service's configuration, the request given   *)
(*                to Call and what the network and the server answer       *)
(*   call         the WebhookCall (or the error) that Call returned        *)
(*   assets       the session assets the readers resolve references in     *)
(*   missing      the references reported to the missing-asset callback    *)
(*   log          the events logged by modifiers and actions               *)
(*   args, result the arguments and the result of a library function call  *)
(***************************************************************************)
VARIABLES flow, contact, runs, envRuns, pc, cur, caller, destination, hasStep,
          event, visited, err, ret, calls, exchange, call,
          assets, missing, log, args, result

vars == <<flow, contact, runs, envRuns, pc, cur, caller, destination, hasStep,
          event, visited, err, ret, calls, exchange, call,
          assets, missing, log, args, result>>

\* the state of the engine, the state of the webhook service, and the state
\* of the readers, modifiers and helper functions
engine == <<flow, contact, runs, envRuns, pc, cur, caller, destination, hasStep,
            event, visited, err, ret, calls>>
service == <<exchange, call>>
library == <<assets, missing, log, args, result>>

locals == <<cur, caller, destination, hasStep, event, visited, err>>

NoReturn == [op |-> "none", run |-> NoRun, err |-> FALSE]
Return(op, run, e) == [op |-> op, run |-> run, err |-> e]

\* no webhook is called
NoExchange == [sent |-> FALSE, fault |-> "unused"]
NoCall == [returned |-> "none"]

\* no assets, no argument of a function under check and no result
NoAssets == [channels |-> {}, fields |-> {}, groups |-> {}]
NoArgs == [op |-> "none"]
NoResult == [op |-> "none"]

\* the engine before the first call, for a flow and a contact
InitEngine(f, c) ==
    /\ flow = f
    /\ contact = c
    /\ runs = <<>>
    /\ envRuns = {}
    /\ pc = "idle"
    /\ cur = NoRun
    /\ caller = "none"
    /\ destination = noDestination
    /\ hasStep = FALSE
    /\ event = NoEvent
    /\ visited = {}
    /\ err = FALSE
    /\ ret = NoReturn
    /\ calls = 0

\* the webhook service is not used
NoWebhook == exchange = NoExchange /\ call = NoCall

\* the readers, modifiers and helper functions are not used
NoLibrary ==
    /\ assets = NoAssets
    /\ missing = <<>>
    /\ log = <<>>
    /\ args = NoArgs
    /\ result = NoResult

Init == \E f \in Flows, c \in Contacts : InitEngine(f, c) /\ NoWebhook /\ NoLibrary

\* the locals once a call has returned
Idle ==
    /\ pc' = "idle"
    /\ cur' = NoRun
    /\ caller' = "none"
    /\ destination' = noDestination
    /\ hasStep' = FALSE
    /\ event' = NoEvent
    /\ visited' = {}
    /\ err' = FALSE

\* a loop check that never fires
LoopDetected_Never(seen, dest) == FALSE

\* the loop check of continueRunUntilWait
LoopDetected(seen, dest) == dest \in seen

\* a nil check that never fires
NodeMissing_Never(node) == FALSE

\* the nil check of continueRunUntilWait on the node it looked up
NodeMissing(node) == node = NilNode

\* a completion check that ignores the run's status
ShouldComplete_AnyStatus(run) == ~run.wait

\* the completion check of continueRunUntilWait
ShouldComplete(run) == ~run.wait /\ run.status = RunActive

\* a start on a flow without nodes that leaves the run active
StartEmpty_Active(run) == run

\* StartFlow on a flow without nodes
StartEmpty(run) == Exit(run, RunCompleted)

\* a check that never finds a parent to resume
RanToCompletion_Never(run) == FALSE

\* a check that resumes the parent whatever the status of the run
RanToCompletion_AnyStatus(run) == run.parent # NoRun

\* the check of ResumeFlow that the run ran to completion and has a parent
RanToCompletion(run) == run.parent # NoRun /\ IsComplete(run)

\* sessionEnvironment.AddRun, called by the driver with the run that StartFlow
\* has just returned
AddRun ==
    /\ pc = "idle"
    /\ ret.op = "start"
    /\ ret.run \notin envRuns
    /\ envRuns' = envRuns \cup {ret.run}
    /\ UNCHANGED <<flow, contact, service, library, runs, pc, locals, ret, calls>>

\* a registry that finds every run
GetRun_Any(uuid) == uuid

\* sessionEnvironment.GetRun
GetRun(uuid) == IF uuid \in envRuns THEN uuid ELSE NoRun

\* the parent StartFlow is called with: none for the first run of the session,
\* after that a run that is waiting (for its sub-flow)
Parents ==
    IF runs = <<>> THEN {NoRun} ELSE {r \in 1..Len(runs) : runs[r].wait}

\* the body of StartFlow
StartFlowBody(parent, input) ==
    LET uuid == Len(runs) + 1
        \* the session of the parent, or a new session, named after its first run
        session == IF parent = NoRun THEN uuid ELSE runs[parent].session
        run == CreateRun(contact, parent, input, session)
    IN  IF Len(flow) = 0
        THEN /\ runs' = Append(runs, StartEmpty(run))
             /\ ret' = Return("start", uuid, FALSE)
             /\ Idle
        ELSE /\ runs' = Append(runs, initTranslations(run))
             /\ pc' = "loop"
             /\ cur' = uuid
             /\ caller' = "start"
             /\ destination' = flow[1].uuid
             /\ hasStep' = FALSE
             /\ event' = input
             /\ visited' = {}
             /\ err' = FALSE
             /\ ret' = NoReturn

\* StartFlow
StartFlow ==
    /\ pc = "idle"
    /\ calls < MaxCalls
    /\ calls' = calls + 1
    /\ \E parent \in Parents, input \in {NoEvent, MsgEvent} :
        StartFlowBody(parent, input)
    /\ UNCHANGED <<flow, contact, service, library, envRuns>>

\* a check that takes every node of a last step to exist still
NoLongerExists_Never(node) == FALSE

\* the check of ResumeFlow that the node of the last step is gone ("node == nil")
NoLongerExists(node) == node = NilNode

\* the body of ResumeFlow up to the call of continueRunUntilWait, for run r
\* of the runs rs
ResumeFlowBody(rs, r, e) ==
    IF Len(rs[r].path) = 0
    THEN /\ runs' = rs
         /\ ret' = Return("resume", r, FALSE)
         /\ Idle
    ELSE LET run == initTranslations(rs[r])
             step == run.path[Len(run.path)]
             node == GetNode(flow, step.node)
         IN  IF NoLongerExists(node)
             THEN /\ runs' = [rs EXCEPT ![r] = AddError(run, NodeError)]
                  /\ ret' = Return("resume", r, TRUE)
                  /\ Idle
             ELSE \E endOk \in BOOLEAN, route \in RoutesOf(node) :
                    LET res == resumeNode(run, node, e, endOk, route)
                    IN  /\ runs' = [rs EXCEPT ![r] = res.run]
                        /\ IF res.err
                           THEN /\ ret' = Return("resume", r, TRUE)
                                /\ Idle
                           ELSE /\ pc' = "loop"
                                /\ cur' = r
                                /\ caller' = "resume"
                                /\ destination' = res.destination
                                /\ hasStep' = TRUE
                                /\ event' = NoEvent
                                /\ visited' = {}
                                /\ err' = FALSE
                                /\ ret' = NoReturn

\* ResumeFlow, called by the driver on a run with a pending wait
ResumeFlow ==
    /\ pc = "idle"
    /\ calls < MaxCalls
    /\ calls' = calls + 1
    /\ \E r \in 1..Len(runs) :
        /\ runs[r].wait
        /\ ResumeFlowBody(runs, r, MsgEvent)
    /\ UNCHANGED <<flow, contact, service, library, envRuns>>

\* an engine that hands the event on to every node it enters
PassedOn_Kept(e) == e

\* the event passed on after the first enterNode: none ("event = nil")
PassedOn(e) == NoEvent

\* one iteration of the loop of continueRunUntilWait
continueRunUntilWait ==
    /\ pc = "loop"
    /\ destination # noDestination
    /\ IF LoopDetected(visited, destination)
       THEN IF ~hasStep
            THEN /\ ret' = Return(caller, cur, TRUE)
                 /\ Idle
                 /\ UNCHANGED runs
            ELSE /\ runs' = [runs EXCEPT ![cur] = AddError(@, LoopError)]
                 /\ err' = TRUE
                 /\ pc' = "break"
                 /\ UNCHANGED <<cur, caller, destination, hasStep, event, visited, ret>>
       ELSE LET node == GetNode(flow, destination)
            IN  IF NodeMissing(node)
                THEN IF ~hasStep
                     THEN /\ ret' = Return(caller, cur, TRUE)
                          /\ Idle
                          /\ UNCHANGED runs
                     ELSE /\ runs' = [runs EXCEPT ![cur] = AddError(@, DestinationError)]
                          /\ err' = TRUE
                          /\ pc' = "break"
                          /\ UNCHANGED <<cur, caller, destination, hasStep, event, visited, ret>>
                ELSE \E failAt \in 0..node.actions, waitOutcome \in WaitOutcomesOf(node),
                        route \in RoutesOf(node) :
                        LET res == enterNode(runs[cur], node, event, failAt,
                                             waitOutcome, route)
                        IN  /\ runs' = [runs EXCEPT ![cur] = res.run]
                            /\ destination' = res.destination
                            /\ hasStep' = TRUE
                            /\ err' = res.err
                            /\ event' = PassedOn(event)
                            /\ visited' = visited \cup {node.uuid}
                            /\ UNCHANGED <<pc, cur, caller, ret>>
    /\ UNCHANGED <<flow, contact, service, library, envRuns, calls>>

\* a loop that a break does not end
LoopEnded_NoBreak == pc = "loop" /\ destination = noDestination

\* the loop of continueRunUntilWait has ended: by a break, or because there
\* is no destination left
LoopEnded == pc = "break" \/ (pc = "loop" /\ destination = noDestination)

\* the end of continueRunUntilWait and the return to, and through, its caller
continueRunUntilWaitEnd ==
    /\ LoopEnded
    /\ LET run == runs[cur]
           done == IF ShouldComplete(run)
                   THEN Exit(run, RunCompleted)
                   ELSE run
           exited == [runs EXCEPT ![cur] = done]
       IN  IF caller = "start" \/ err \/ ~RanToCompletion(done)
           THEN /\ runs' = exited
                /\ ret' = Return(caller, cur, err)
                /\ Idle
           ELSE IF GetRun(done.parent) = NoRun
           THEN /\ runs' = exited
                /\ ret' = Return(caller, cur, TRUE)
                /\ Idle
           ELSE \* parentRun.SetSession(run.Session()); ResumeFlow(env, parentRun, event)
                ResumeFlowBody([exited EXCEPT ![done.parent] = SetSession(@, done.session)],
                               done.parent, FlowExitEvent)
    /\ UNCHANGED <<flow, contact, service, library, envRuns, calls>>

Next ==
    \/ StartFlow
    \/ ResumeFlow
    \/ AddRun
    \/ continueRunUntilWait
    \/ continueRunUntilWaitEnd

Spec == Init /\ [][Next]_vars

(***************************************************************************)
(* A session of nested runs: a run that waits starts a sub-flow, whose run *)
(* has it as parent, and every event of the session resumes the innermost  *)
(* run that waits.                                                         *)
(***************************************************************************)
MaxDepth == 3
MaxChainCalls == 4

\* the flows a session of nested runs is checked for: the entry node has a
\* wait and no actions, the nodes after it have neither wait nor router
ChainFlows ==
    {f \in Flows :
        /\ Len(f) > 0
        /\ f[1].wait
        /\ f[1].actions = 0
        /\ \A i \in 2..Len(f) : ~f[i].wait /\ ~f[i].router.present}
ChainContact == [present |-> TRUE, language |-> "fra"]

InitChain == \E f \in ChainFlows : InitEngine(f, ChainContact) /\ NoWebhook /\ NoLibrary

Waiting == {r \in 1..Len(runs) : runs[r].wait}

\* StartFlow for the first run of the session, and for the sub-flow of the
\* innermost run that waits
StartSubflow ==
    /\ pc = "idle"
    /\ calls < MaxChainCalls
    /\ Len(runs) < MaxDepth
    /\ runs # <<>> => Waiting # {}
    /\ calls' = calls + 1
    /\ StartFlowBody(IF runs = <<>> THEN NoRun ELSE Max(Waiting), NoEvent)
    /\ UNCHANGED <<flow, contact, service, library, envRuns>>

\* ResumeFlow for the innermost run that waits
ResumeSession ==
    /\ pc = "idle"
    /\ calls < MaxChainCalls
    /\ Waiting # {}
    /\ calls' = calls + 1
    /\ ResumeFlowBody(runs, Max(Waiting), MsgEvent)
    /\ UNCHANGED <<flow, contact, service, library, envRuns>>

NextChain ==
    \/ StartSubflow
    \/ ResumeSession
    \/ AddRun
    \/ continueRunUntilWait
    \/ continueRunUntilWaitEnd

SpecChain == InitChain /\ [][NextChain]_vars

\* The engine is sequential code: once StartFlow or ResumeFlow has been called,
\* the next iteration of the loop and the code after the loop are executed
\* whenever the calls they make (actions, waits, routers) return.
SpecChainFair ==
    /\ InitChain
    /\ [][NextChain]_vars
    /\ WF_vars(continueRunUntilWait)
    /\ WF_vars(continueRunUntilWaitEnd)

(***************************************************************************)
(* A session whose flow is revised between two calls: ResumeFlow hydrates  *)
(* the run with the environment, so a run is resumed on the flow as it is  *)
(* then.                                                                   *)
(***************************************************************************)
\* the revisions of a flow: one node has lost its wait, or the last node is
\* gone
Revisions(f) ==
    {[f EXCEPT ![i].wait = FALSE] : i \in {j \in 1..Len(f) : f[j].wait}}
    \cup {SubSeq(f, 1, Len(f) - 1) : k \in {j \in {1} : Len(f) > 0}}

InitReload == \E f \in Flows : InitEngine(f, ChainContact) /\ NoWebhook /\ NoLibrary

\* the flow is revised while a run waits
ReloadFlow ==
    /\ pc = "idle"
    /\ \E r \in 1..Len(runs) : runs[r].wait
    /\ flow' \in Revisions(flow)
    /\ UNCHANGED <<contact, service, library, runs, envRuns, pc, locals, ret, calls>>

\* ResumeFlow, called by the driver on a run that has no step
ResumeNoSteps ==
    /\ pc = "idle"
    /\ calls < MaxCalls
    /\ calls' = calls + 1
    /\ \E r \in 1..Len(runs) :
        /\ runs[r].path = <<>>
        /\ ResumeFlowBody(runs, r, MsgEvent)
    /\ UNCHANGED <<flow, contact, service, library, envRuns>>

NextReload ==
    \/ StartFlow
    \/ ResumeFlow
    \/ ResumeNoSteps
    \/ AddRun
    \/ ReloadFlow
    \/ continueRunUntilWait
    \/ continueRunUntilWaitEnd

SpecReload == InitReload /\ [][NextReload]_vars

(***************************************************************************)
(* The webhook service (services/webhooks/service.go).  A response body is *)
(* its length and what its first bytes look like; byte i of a body is i,   *)
(* and the bytes recorded are a sequence of intervals <<from, to>>.        *)
(***************************************************************************)
sniffLen == 512

CallStatusSuccess == "success"
CallStatusResponseError == "response_error"
CallStatusConnectionError == "connection_error"
CallStatusSubscriberGone == "subscriber_gone"

fetchResponseContentTypes_NoHTML ==
    {"application/json", "application/javascript", "application/xml",
     "text/plain", "text/xml", "text/javascript"}

fetchResponseContentTypes ==
    {"application/json", "application/javascript", "application/xml",
     "text/html", "text/plain", "text/xml", "text/javascript"}

\* a status rule that knows no resthooks
statusFromCode_NoResthook(code, isResthook) ==
    IF code \div 100 = 2 THEN CallStatusSuccess ELSE CallStatusResponseError

statusFromCode(code, isResthook) ==
    IF isResthook /\ code = 410 THEN CallStatusSubscriberGone
    ELSE IF code \div 100 = 2 THEN CallStatusSuccess
    ELSE CallStatusResponseError

\* the Content-Type headers of a response: none, well-formed ones, and one
\* that is no media type
NoHeader == ""
BadHeader == "text/plain/extra"
ContentTypeHeaders ==
    {NoHeader, "text/html; charset=utf-8", "Application/JSON", "image/png", BadHeader}

\* mime.ParseMediaType, the media type alone: lower case, without parameters,
\* and empty when the value is no media type
ParseMediaType(v) ==
    CASE v = "text/html; charset=utf-8" -> "text/html"
      [] v = "text/plain; charset=utf-8" -> "text/plain"
      [] v = "Application/JSON" -> "application/json"
      [] v = "image/png" -> "image/png"
      [] v = "application/octet-stream" -> "application/octet-stream"
      [] OTHER -> ""

\* http.DetectContentType on the first n bytes of a body, which looks like
\* text, like HTML or like binary data; what it looks like shows in its
\* first byte
DetectContentType(body, n) ==
    IF n = 0 \/ body.kind = "text" THEN "text/plain; charset=utf-8"
    ELSE IF body.kind = "html" THEN "text/html; charset=utf-8"
    ELSE "application/octet-stream"

Min(a, b) == IF a < b THEN a ELSE b

\* a reader that stops at the limit itself
LimitReader_Exact(maxBodyBytes) == maxBodyBytes

\* io.LimitReader(response.Body, int64(maxBodyBytes)+1): the bytes it gives
LimitReader(maxBodyBytes) == maxBodyBytes + 1

\* the bytes from..to of the body, as appended to a trace
Bytes(from, to) == IF to < from THEN <<>> ELSE << <<from, to>> >>

\* what the service is configured with, what Call is given, and what the
\* network and the server answer
MaxBodyValues == {0, sniffLen - 1, sniffLen, 2 * sniffLen}
BodyLens(max) == {0, 1, max, max + 1, max + 2, sniffLen, sniffLen + 1}

\* the WebhookCall for a response, before its body is looked at
WebhookCall(x) ==
    [returned |-> "call", status_code |-> x.code,
     status |-> statusFromCode(x.code, x.resthook # ""),
     resthook |-> x.resthook, response_status |-> "", content_type |-> "",
     body |-> <<>>, read |-> 0]

\* the numbers of bytes the read for sniffing can return: all there is up to
\* sniffLen and to the limit, or fewer
SniffReads(x) ==
    LET all == Min(sniffLen, Min(x.body.len, LimitReader(x.maxBodyBytes)))
    IN  {all} \cup {1 : k \in {j \in {1} : all > 1}}

\* newCallFromResponse, when the read for sniffing returns n bytes
CallFromResponse(x, n) ==
    LET limit == LimitReader(x.maxBodyBytes)
        headerType == ParseMediaType(x.header)
        sniffs == headerType = ""
        bodySniffed == IF sniffs THEN n ELSE 0
        contentType == IF sniffs
                       THEN ParseMediaType(DetectContentType(x.body, bodySniffed))
                       ELSE headerType
        saveBody == contentType \in fetchResponseContentTypes
        bodyBytes == Min(x.body.len, limit) - bodySniffed
        N == limit - bodySniffed - bodyBytes
        w == [WebhookCall(x) EXCEPT !.content_type = contentType]
    IN  IF x.fault = "dump_response" \/ (sniffs /\ x.fault = "sniff")
        THEN [returned |-> "error"]
        ELSE IF ~saveBody
        THEN [w EXCEPT !.response_status = "unsupported type", !.read = bodySniffed]
        ELSE IF x.fault = "read"
        THEN [w EXCEPT !.status = CallStatusConnectionError,
                       !.response_status = "io error", !.read = bodySniffed]
        ELSE IF N <= 0
        THEN [w EXCEPT !.status = CallStatusResponseError,
                       !.response_status = "too large",
                       !.read = bodySniffed + bodyBytes]
        ELSE [w EXCEPT !.response_status = "read",
                       !.body = Bytes(1, bodySniffed)
                                \o Bytes(bodySniffed + 1, bodySniffed + bodyBytes),
                       !.read = bodySniffed + bodyBytes]

\* a service, a request and what will come of it: a failure of the dump of
\* the request, of the network, of the dump of the response or of a read of
\* the body, and the response
InitWebhook ==
    /\ InitEngine(<<>>, NoContact)
    /\ NoLibrary
    /\ call = NoCall
    /\ \E f \in {"none", "dump_request", "network", "dump_response", "sniff", "read"},
          m \in MaxBodyValues, h \in {"", "new-contact"},
          q \in {"absent", "", "caller"}, d \in {"absent", "default"},
          c \in {199, 200, 299, 300, 410, 500}, t \in ContentTypeHeaders,
          k \in {"text", "html", "binary"} :
            \E n \in BodyLens(m) :
                exchange = [sent |-> FALSE, fault |-> f, maxBodyBytes |-> m,
                            resthook |-> h, request_header |-> q,
                            default_header |-> d, code |-> c, header |-> t,
                            body |-> [len |-> n, kind |-> k]]

\* service.Call up to the response: the default headers, the dump of the
\* request and the request itself
Call ==
    /\ exchange # NoExchange
    /\ ~exchange.sent
    /\ exchange' =
        [exchange EXCEPT !.sent = TRUE,
                         !.request_header =
                            IF @ \in {"absent", ""} /\ exchange.default_header # "absent"
                            THEN exchange.default_header
                            ELSE @]
    /\ call' = IF exchange.fault = "dump_request" THEN [returned |-> "error"]
               ELSE IF exchange.fault = "network"
               THEN [returned |-> "call", status_code |-> 0,
                     status |-> CallStatusConnectionError,
                     resthook |-> "", response_status |-> "", content_type |-> "",
                     body |-> <<>>, read |-> 0]
               ELSE NoCall
    /\ UNCHANGED <<engine, library>>

\* service.newCallFromResponse
newCallFromResponse ==
    /\ exchange.sent
    /\ call = NoCall
    /\ \E n \in SniffReads(exchange) : call' = CallFromResponse(exchange, n)
    /\ UNCHANGED <<engine, library, exchange>>

NextWebhook ==
    \/ Call
    \/ newCallFromResponse

SpecWebhook == InitWebhook /\ [][NextWebhook]_vars

(***************************************************************************)
(* Readers of typed JSON, the contact modifiers and the set-preferred-     *)
(* channel action.  A JSON object is a record of its fields; an asset       *)
(* reference is the type and the identity of the asset.                     *)
(***************************************************************************)
MaxMissing == 2
MaxEvents == 2
MaxApplies == 2

NoError == ""
TypeRequired == "field 'type' is required"
ErrNoModifier == "no modifier to return because of missing assets"
ContactRequired == "can't execute action in session without a contact"
Nil == [type |-> "nil"]

\* the type tags of the modifiers and of the events
RegisteredTypes ==
    {"channel", "field", "groups", "language", "name", "is_blocked",
     "is_stopped", "timezone", "urn"}
RegisteredEvents ==
    {"error", "contact_channel_changed", "contact_field_changed",
     "contact_groups_changed", "contact_language_changed", "contact_name_changed"}

Reference(type, id) == [type |-> type, id |-> id]
SeqToSet(q) == {q[i] : i \in 1..Len(q)}
SelectIn(q, set) == SelectSeq(q, LAMBDA x : x \in set)
SelectNotIn(q, set) == SelectSeq(q, LAMBDA x : x \notin set)
References(type, q) == [i \in 1..Len(q) |-> Reference(type, q[i])]

\* utils.ReadTypeFromJSON: the type field is required
ReadTypeFromJSON_Lenient(data) ==
    [name |-> IF "type" \in DOMAIN data THEN data.type ELSE "name", err |-> NoError]
ReadTypeFromJSON(data) ==
    IF "type" \in DOMAIN data /\ data.type # ""
    THEN [name |-> data.type, err |-> NoError]
    ELSE [name |-> "", err |-> TypeRequired]

\* what a reader returns: nothing and the error, or the value read, and the
\* references it found missing
Failed(e, refs) == [value |-> Nil, err |-> e, missing |-> refs]
Read(v, refs) == [value |-> v, err |-> NoError, missing |-> refs]
UnknownType(name) == "unknown type: '" \o name \o "'"

\* events.ReadEvent
readEvent(data) ==
    LET t == ReadTypeFromJSON(data)
    IN  IF t.err # NoError THEN Failed(t.err, <<>>)
        ELSE IF t.name \notin RegisteredEvents THEN Failed(UnknownType(t.name), <<>>)
        ELSE Read(data, <<>>)

\* the readers of the modifiers that refer to assets
readChannelModifier_Keep(a, data) ==
    Read(data, IF data.channel \in a.channels THEN <<>>
               ELSE <<Reference("channel", data.channel)>>)
readChannelModifier(a, data) ==
    IF data.channel \in a.channels
    THEN Read(data, <<>>)
    ELSE Failed(ErrNoModifier, <<Reference("channel", data.channel)>>)

readFieldModifier(a, data) ==
    IF data.field \in a.fields
    THEN Read(data, <<>>)
    ELSE Failed(ErrNoModifier, <<Reference("field", data.field)>>)

readGroupsModifier_All(a, data) ==
    LET lost == References("group", SelectNotIn(data.groups, a.groups))
    IN  IF lost = <<>> THEN Read(data, lost) ELSE Failed(ErrNoModifier, lost)
readGroupsModifier(a, data) ==
    LET found == SelectIn(data.groups, a.groups)
        lost == References("group", SelectNotIn(data.groups, a.groups))
    IN  IF found = <<>>
        THEN Failed(ErrNoModifier, lost)
        ELSE Read([data EXCEPT !.groups = found], lost)

\* modifiers.ReadModifier
readModifier(a, data) ==
    LET t == ReadTypeFromJSON(data)
    IN  IF t.err # NoError THEN Failed(t.err, <<>>)
        ELSE IF t.name \notin RegisteredTypes THEN Failed(UnknownType(t.name), <<>>)
        ELSE CASE t.name = "channel" -> readChannelModifier(a, data)
               [] t.name = "field" -> readFieldModifier(a, data)
               [] t.name = "groups" -> readGroupsModifier(a, data)
               [] OTHER -> Read(data, <<>>)

\* the events of the changes of a contact
ContactChannelChangedEvent(channel) ==
    [type |-> "contact_channel_changed", channel |-> channel]
ContactFieldChangedEvent(field, value) ==
    [type |-> "contact_field_changed", field |-> field, value |-> value]
ContactGroupsChangedEvent(added, removed) ==
    [type |-> "contact_groups_changed", groups_added |-> added, groups_removed |-> removed]
ContactLanguageChangedEvent(language) ==
    [type |-> "contact_language_changed", language |-> language]
ContactNameChangedEvent(name) ==
    [type |-> "contact_name_changed", name |-> name]

\* a contact as the modifiers see it
NoChannel == ""
FieldKeys == {"gender"}
NewContact(language) ==
    [present |-> TRUE, language |-> language, name |-> "", channel |-> NoChannel,
     groups |-> {}, fields |-> [k \in FieldKeys |-> ""]]

\* Modifier.Apply: the contact after the modifier and the events emitted
Changed(c, e) == [contact |-> c, events |-> <<e>>]
Same(c) == [contact |-> c, events |-> <<>>]
Apply_Always(m, c) ==
    IF m.type = "name"
    THEN Changed([c EXCEPT !.name = m.name], ContactNameChangedEvent(m.name))
    ELSE IF m.type = "groups" /\ m.modification = "add"
    THEN Changed([c EXCEPT !.groups = @ \cup SeqToSet(m.groups)],
                 ContactGroupsChangedEvent(m.groups, <<>>))
    ELSE Same(c)
Apply(m, c) ==
    CASE m.type = "channel" ->
            IF c.channel = m.channel THEN Same(c)
            ELSE Changed([c EXCEPT !.channel = m.channel],
                         ContactChannelChangedEvent(m.channel))
      [] m.type = "field" ->
            IF c.fields[m.field] = m.value THEN Same(c)
            ELSE Changed([c EXCEPT !.fields[m.field] = m.value],
                         ContactFieldChangedEvent(m.field, m.value))
      [] m.type = "groups" /\ m.modification = "add" ->
            LET diff == SelectNotIn(m.groups, c.groups)
            IN  IF diff = <<>> THEN Same(c)
                ELSE Changed([c EXCEPT !.groups = @ \cup SeqToSet(diff)],
                             ContactGroupsChangedEvent(diff, <<>>))
      [] m.type = "groups" /\ m.modification = "remove" ->
            LET diff == SelectIn(m.groups, c.groups)
            IN  IF diff = <<>> THEN Same(c)
                ELSE Changed([c EXCEPT !.groups = @ \ SeqToSet(diff)],
                             ContactGroupsChangedEvent(<<>>, diff))
      [] m.type = "language" ->
            IF c.language = m.language THEN Same(c)
            ELSE Changed([c EXCEPT !.language = m.language],
                         ContactLanguageChangedEvent(m.language))
      [] m.type = "name" ->
            IF c.name = m.name THEN Same(c)
            ELSE Changed([c EXCEPT !.name = m.name], ContactNameChangedEvent(m.name))
      [] OTHER -> Same(c)

\* the JSON the readers are given
GroupLists == {<<"losers">>, <<"winners">>, <<"losers", "winners">>, <<"winners", "losers">>}
ModifierJSON ==
    {[foo |-> "bar"], [type |-> "do_the_foo", foo |-> "bar"],
     [type |-> "channel", channel |-> "nexmo"],
     [type |-> "field", field |-> "gender", value |-> "M"],
     [type |-> "language", language |-> "fra"],
     [type |-> "name", name |-> "Bob"], [type |-> "name", name |-> ""]}
    \cup {[type |-> "groups", modification |-> d, groups |-> g] :
            d \in {"add", "remove"}, g \in GroupLists}
EventJSON ==
    {[foo |-> "bar"], [type |-> "do_the_foo", foo |-> "bar"],
     [type |-> "name", name |-> "Bob"],
     ErrorEvent(ContactRequired), ContactChannelChangedEvent("nexmo"),
     ContactNameChangedEvent("Bob")}

InitModifiers ==
    /\ \E c \in {NoContact, NewContact(NilLanguage)} : InitEngine(<<>>, c)
    /\ NoWebhook
    /\ \E ch \in SUBSET {"nexmo"}, f \in SUBSET FieldKeys, g \in SUBSET {"losers", "winners"} :
            assets = [channels |-> ch, fields |-> f, groups |-> g]
    /\ missing = <<>>
    /\ log = <<>>
    /\ args = NoArgs
    /\ result = NoResult

others == <<flow, runs, envRuns, pc, locals, ret, calls, service, assets, args>>

\* events.ReadEvent on some JSON
ReadEvent ==
    /\ \E data \in EventJSON :
        LET r == readEvent(data)
        IN  result' = [op |-> "ReadEvent", data |-> data, value |-> r.value,
                       err |-> r.err, applied |-> 0]
    /\ UNCHANGED <<others, contact, missing, log>>

\* modifiers.ReadModifier on some JSON, with a callback that collects the
\* missing references
ReadModifier ==
    /\ Len(missing) < MaxMissing
    /\ \E data \in ModifierJSON :
        LET r == readModifier(assets, data)
        IN  /\ result' = [op |-> "ReadModifier", data |-> data, value |-> r.value,
                          err |-> r.err, applied |-> 0]
            /\ missing' = missing \o r.missing
    /\ UNCHANGED <<others, contact, log>>

\* Modifier.Apply of the modifier read, to the contact, with an emitter that
\* adds to the log
ApplyModifier ==
    /\ result.op = "ReadModifier"
    /\ result.value # Nil
    /\ result.applied < MaxApplies
    /\ contact # NoContact
    /\ Len(log) < MaxEvents
    /\ LET r == Apply(result.value, contact)
       IN  /\ contact' = r.contact
           /\ log' = log \o r.events
    /\ result' = [result EXCEPT !.applied = @ + 1]
    /\ UNCHANGED <<others, missing>>

\* an Execute that does not look for the contact
Execute_NoContactCheck ==
    /\ Len(log) < MaxEvents
    /\ \E channel \in {"nexmo"} :
        /\ log' = Append(log, ContactChannelChangedEvent(channel))
        /\ result' = [op |-> "Execute", data |-> channel, value |-> Nil,
                      err |-> NoError, applied |-> 0]
    /\ UNCHANGED <<others, contact, missing>>

\* PreferredChannelAction.Execute
Execute ==
    /\ Len(log) < MaxEvents
    /\ \E channel \in {"nexmo"} :
        /\ log' = IF contact = NoContact
                  THEN Append(log, ErrorEvent(ContactRequired))
                  ELSE Append(log, ContactChannelChangedEvent(channel))
        /\ result' = [op |-> "Execute", data |-> channel, value |-> Nil,
                      err |-> NoError, applied |-> 0]
    /\ UNCHANGED <<others, contact, missing>>

NextModifiers ==
    \/ ReadEvent
    \/ ReadModifier
    \/ ApplyModifier
    \/ Execute

SpecModifiers == InitModifiers /\ [][NextModifiers]_vars

(***************************************************************************)
(* Functions of flow inspection, Snakify and the dict of the expression    *)
(* language, each applied to arguments chosen at the start.                *)
(***************************************************************************)
MaxRefs == 3
MaxResults == 3
MaxText == 3

\* the session assets: for each type of asset the identities that exist; nil
\* when no session assets are given
NilAssets == [nil |-> TRUE]
SessionAssets(channels, groups) ==
    [channel |-> channels, classifier |-> {}, field |-> {}, flow |-> {},
     global |-> {}, group |-> groups, label |-> {}, template |-> {}]

\* ExtractedReference.Check
Check_NoContacts(ref, sa) == ref.type # "contact" /\ ref.id \in sa[ref.type]
Check(ref, sa) ==
    CASE ref.type = "channel" -> ref.id \in sa.channel
      [] ref.type = "classifier" -> ref.id \in sa.classifier
      [] ref.type = "contact" -> TRUE
      [] ref.type = "field" -> ref.id \in sa.field
      [] ref.type = "flow" -> ref.id \in sa.flow
      [] ref.type = "global" -> ref.id \in sa.global
      [] ref.type = "group" -> ref.id \in sa.group
      [] ref.type = "label" -> ref.id \in sa.label
      [] ref.type = "template" -> ref.id \in sa.template

\* the loop of NewDependencies over the references left
RECURSIVE newDependencies(_, _, _, _)
newDependencies(refs, sa, deps, depsSeen) ==
    IF refs = <<>> THEN deps
    ELSE LET er == Head(refs)
             key == er.type \o ":" \o er.id
             isMissing == IF sa # NilAssets THEN ~Check(er, sa) ELSE FALSE
             dep == [reference |-> er, type |-> er.type, missing |-> isMissing]
         IN  IF key \notin depsSeen
             THEN newDependencies(Tail(refs), sa, Append(deps, dep), depsSeen \cup {key})
             ELSE newDependencies(Tail(refs), sa, deps, depsSeen)

NewDependencies(refs, sa) == newDependencies(refs, sa, <<>>, {})

\* utils.StringSliceContains
StringSliceContains(slice, str, caseSensitive) ==
    \E i \in 1..Len(slice) :
        \/ caseSensitive /\ slice[i] = str
        \/ ~caseSensitive /\ ToLower(slice[i]) = ToLower(str)

NewResultInfo(name, categories) ==
    [key |-> Snakify(name), name |-> name, categories |-> categories]

\* the merge of the categories of a result into those of its spec
RECURSIVE mergeCategories(_, _)
mergeCategories(existing, categories) ==
    IF categories = <<>> THEN existing
    ELSE mergeCategories(IF ~StringSliceContains(existing, Head(categories), FALSE)
                         THEN Append(existing, Head(categories))
                         ELSE existing,
                         Tail(categories))

\* specsSeen[key]: the place of the spec with the key, 0 for none
specsSeen(specs, key) ==
    IF \E i \in 1..Len(specs) : specs[i].key = key
    THEN CHOOSE i \in 1..Len(specs) : specs[i].key = key
    ELSE 0

\* the loop of NewResultSpecs over the results left
RECURSIVE newResultSpecs(_, _)
newResultSpecs(results, specs) ==
    IF results = <<>> THEN specs
    ELSE LET extracted == Head(results)
             existing == specsSeen(specs, extracted.info.key)
             nodeUUID == extracted.node
         IN  newResultSpecs(Tail(results),
                IF existing # 0
                THEN [specs EXCEPT
                        ![existing].categories = mergeCategories(@, extracted.info.categories),
                        ![existing].node_uuids =
                            IF ~StringSliceContains(@, nodeUUID, TRUE)
                            THEN Append(@, nodeUUID) ELSE @]
                ELSE Append(specs, [key |-> extracted.info.key, name |-> extracted.info.name,
                                    categories |-> extracted.info.categories,
                                    node_uuids |-> <<nodeUUID>>]))

NewResultSpecs(results) == newResultSpecs(results, <<>>)

\* XDict.Get: the range over the map visits the keys in any order, and the
\* first key that matches decides
Get(x, key) ==
    LET hits == {k \in DOMAIN x : ToLower(k) = ToLower(key)}
    IN  IF hits = {} THEN {[value |-> Nil, found |-> FALSE]}
        ELSE {[value |-> x[k], found |-> TRUE] : k \in hits}

\* the arguments
RECURSIVE SeqsUpTo(_, _)
SeqsUpTo(set, n) ==
    IF n = 0 THEN {<<>>}
    ELSE LET shorter == SeqsUpTo(set, n - 1)
         IN  shorter \cup {Append(q, x) : q \in shorter, x \in set}

\* the references of three types, one of them also under a second name
ExtractedReferences ==
    {[type |-> t, id |-> i, name |-> "Testers"] :
        t \in {"channel", "contact", "group"}, i \in {"u1", "u2"}}
    \cup {[type |-> "group", id |-> "u1", name |-> "Customers"]}
CategoryLists == {<<>>, <<<<"A">>, <<"b">>>>, <<<<"a">>, <<"A">>>>}
ExtractedResults ==
    {[node |-> n, info |-> NewResultInfo(name, c)] :
        n \in {"n1", "n2"}, name \in {<<"A">>, <<"a">>, <<"b">>}, c \in CategoryLists}
(***************************************************************************)
(* Contact fields (flows/fields.go).  A raw value is a sequence of          *)
(* characters; FieldValues is a function from field keys to field values.  *)
(***************************************************************************)
FieldValueTypeText == "text"
FieldValueTypeDecimal == "decimal"
FieldValueTypeDatetime == "datetime"
FieldValueTypeWard == "ward"
FieldValueTypeDistrict == "district"
FieldValueTypeState == "state"
FieldValueTypes ==
    {FieldValueTypeText, FieldValueTypeDecimal, FieldValueTypeDatetime,
     FieldValueTypeWard, FieldValueTypeDistrict, FieldValueTypeState}

NewField(key, valueType) == [key |-> key, valueType |-> valueType]

\* the characters of raw values: a digit, the decimal point, a sign and a
\* character that is none of these
RawChars == {"1", ".", "-", "x"}
Points(v) == {i \in 1..Len(v) : v[i] = "."}

\* decimal.NewFromString: the text is split at its decimal point (there may be
\* one at most), the parts without the point must be an integer with an
\* optional sign, and the exponent is minus the number of characters after
\* the point
NewFromString(v) ==
    LET intString == SelectSeq(v, LAMBDA c : c # ".")
        signed == intString # <<>> /\ Head(intString) = "-"
        digits == IF signed THEN Tail(intString) ELSE intString
        ok == /\ Cardinality(Points(v)) <= 1
              /\ digits # <<>>
              /\ \A i \in 1..Len(digits) : digits[i] \in Digits
    IN  IF ok
        THEN [value |-> [negative |-> signed, digits |-> digits,
                         exp |-> IF Points(v) = {} THEN 0
                                 ELSE (CHOOSE i \in Points(v) : TRUE) - Len(v)],
              err |-> FALSE]
        ELSE [value |-> Nil, err |-> TRUE]

\* utils.DateFromString: a date is two groups of digits with a separator
\* between them
DateFromString(v) ==
    IF /\ Len(v) = 3
       /\ v[1] \in Digits
       /\ v[2] \in {"-", "."}
       /\ v[3] \in Digits
    THEN [value |-> [first |-> v[1], second |-> v[3]], err |-> FALSE]
    ELSE [value |-> Nil, err |-> TRUE]

\* a parser that takes the value of a field of a location type as text
ParseValue_LocationAsText(field, value) ==
    IF field.valueType = FieldValueTypeDecimal THEN NewFromString(value)
    ELSE IF field.valueType = FieldValueTypeDatetime THEN DateFromString(value)
    ELSE [value |-> value, err |-> FALSE]

\* Field.ParseValue
ParseValue(field, value) ==
    IF field.valueType = FieldValueTypeText THEN [value |-> value, err |-> FALSE]
    ELSE IF field.valueType = FieldValueTypeDecimal THEN NewFromString(value)
    ELSE IF field.valueType = FieldValueTypeDatetime THEN DateFromString(value)
    ELSE [value |-> Nil, err |-> TRUE]

NewFieldValue(field, value, createdOn) ==
    [field |-> field, value |-> value, createdOn |-> createdOn]

\* a map with the entry for key k set to v
Put(f, k, v) == [x \in DOMAIN f \cup {k} |-> IF x = k THEN v ELSE f[x]]

\* a save that stores the raw value before it parses it
FieldValuesSave_StoreFirst(f, field, rawValue, now) ==
    LET parsed == ParseValue(field, rawValue)
    IN  IF parsed.err
        THEN [values |-> Put(f, field.key, NewFieldValue(field, rawValue, now)),
              err |-> TRUE]
        ELSE [values |-> Put(f, field.key, NewFieldValue(field, parsed.value, now)),
              err |-> FALSE]

\* FieldValues.Save
FieldValuesSave(f, field, rawValue, now) ==
    LET parsed == ParseValue(field, rawValue)
    IN  IF parsed.err
        THEN [values |-> f, err |-> TRUE]
        ELSE [values |-> Put(f, field.key, NewFieldValue(field, parsed.value, now)),
              err |-> FALSE]

\* the fields and the field values Save is called with: the values were
\* saved earlier, as text
SavedFieldKeys == {"age", "joined"}
SavedFieldValues ==
    {[k \in keys |-> NewFieldValue(NewField(k, FieldValueTypeText), <<"x">>, 0)] :
        keys \in SUBSET SavedFieldKeys}

DictKeys == {<<"a">>, <<"A">>, <<"b">>}
Dicts == UNION {[keys -> {1, 2}] : keys \in SUBSET DictKeys}

InitFunctions ==
    /\ InitEngine(<<>>, NoContact)
    /\ NoWebhook
    /\ assets = NoAssets
    /\ missing = <<>>
    /\ log = <<>>
    /\ result = NoResult
    /\ \/ \E refs \in SeqsUpTo(ExtractedReferences, MaxRefs),
             ch \in SUBSET {"u1", "u2"}, g \in SUBSET {"u1", "u2"} :
                \E sa \in {NilAssets, SessionAssets(ch, g)} :
                    args = [op |-> "NewDependencies", refs |-> refs, sa |-> sa]
       \/ \E results \in SeqsUpTo(ExtractedResults, MaxResults) :
                args = [op |-> "NewResultSpecs", results |-> results]
       \/ \E text \in SeqsUpTo(Chars, MaxText) :
                args = [op |-> "Snakify", text |-> text]
       \/ \E x \in Dicts, key \in DictKeys \cup {<<"B">>} :
                args = [op |-> "Get", x |-> x, key |-> key]
       \/ \E f \in SavedFieldValues, key \in SavedFieldKeys, type \in FieldValueTypes,
             raw \in SeqsUpTo(RawChars, MaxText) :
                args = [op |-> "Save", values |-> f, field |-> NewField(key, type),
                        raw |-> raw]

CallNewDependencies ==
    /\ args.op = "NewDependencies"
    /\ result = NoResult
    /\ result' = [op |-> args.op, value |-> NewDependencies(args.refs, args.sa)]
    /\ UNCHANGED <<engine, service, assets, missing, log, args>>

CallNewResultSpecs ==
    /\ args.op = "NewResultSpecs"
    /\ result = NoResult
    /\ result' = [op |-> args.op, value |-> NewResultSpecs(args.results)]
    /\ UNCHANGED <<engine, service, assets, missing, log, args>>

CallSnakify ==
    /\ args.op = "Snakify"
    /\ result = NoResult
    /\ result' = [op |-> args.op, value |-> Snakify(args.text)]
    /\ UNCHANGED <<engine, service, assets, missing, log, args>>

\* a lookup, and any number of lookups after it
CallGet ==
    /\ args.op = "Get"
    /\ \E r \in Get(args.x, args.key) :
            result' = [op |-> args.op, value |-> r.value, found |-> r.found]
    /\ UNCHANGED <<engine, service, assets, missing, log, args>>

\* a save, at some time after the values it finds were created
CallSave ==
    /\ args.op = "Save"
    /\ result = NoResult
    /\ \E now \in {1, 2} :
        LET saved == FieldValuesSave(args.values, args.field, args.raw, now)
        IN  result' = [op |-> args.op, value |-> saved.values, err |-> saved.err]
    /\ UNCHANGED <<engine, service, assets, missing, log, args>>

NextFunctions ==
    \/ CallSave
    \/ CallNewDependencies
    \/ CallNewResultSpecs
    \/ CallSnakify
    \/ CallGet

SpecFunctions == InitFunctions /\ [][NextFunctions]_vars

(***************************************************************************)
(* Properties.                                                             *)
(***************************************************************************)
LastStep(run) == run.path[Len(run.path)]
LastEvent(run) ==
    IF run.path = <<>> \/ LastStep(run).events = <<>> THEN NoEvent
    ELSE LastStep(run).events[Len(LastStep(run).events)]
Executed(run) == [i \in 1..Len(run.path) |-> run.path[i].executed]
HasNode(f, uuid) == \E i \in 1..Len(f) : f[i].uuid = uuid
Terminal == {RunCompleted, RunErrored}

\* C1: when the traversal of a continuation reaches a node already entered in
\* that continuation, the loop error is logged on the step, the run becomes
\* errored, no step is created and no action executed, and the call returns
\* the error with the run still errored.
C1_LoopDetection ==
    [][ /\ (pc = "loop" /\ destination # noDestination /\ destination \in visited) =>
            /\ pc' = "break"
            /\ runs'[cur].status = RunErrored
            /\ LastEvent(runs'[cur]) = ErrorEvent(LoopError)
            /\ Len(runs'[cur].path) = Len(runs[cur].path)
            /\ Executed(runs'[cur]) = Executed(runs[cur])
        /\ (pc = "break" /\ LastEvent(runs[cur]) = ErrorEvent(LoopError)) =>
            /\ pc' = "idle"
            /\ ret'.err
            /\ runs'[cur] = runs[cur]
            /\ runs'[cur].status = RunErrored
      ]_vars

\* a run stopped by the loop detection after a resume
C1_Witness ==
    /\ pc = "idle"
    /\ ret.op = "resume"
    /\ ret.err
    /\ runs[ret.run].status = RunErrored
    /\ LastEvent(runs[ret.run]) = ErrorEvent(LoopError)

\* C2: when the destination of the exit taken names no node of the flow, the
\* error is logged on the current step and the run becomes errored; the call
\* returns with the run errored, neither active nor completed.
C2_UnknownDestination ==
    [][ /\ (pc = "loop" /\ destination # noDestination /\ destination \notin visited
              /\ ~HasNode(flow, destination)) =>
            /\ pc' = "break"
            /\ runs'[cur].status = RunErrored
            /\ LastEvent(runs'[cur]) = ErrorEvent(DestinationError)
            /\ Len(runs'[cur].path) = Len(runs[cur].path)
        /\ (pc = "break" /\ LastEvent(runs[cur]) = ErrorEvent(DestinationError)) =>
            /\ pc' = "idle"
            /\ ret'.err
            /\ runs'[cur].status = RunErrored
      ]_vars

\* a run stopped at an exit whose destination does not exist
C2_Witness ==
    /\ pc = "idle"
    /\ ret.err
    /\ runs[ret.run].status = RunErrored
    /\ LastEvent(runs[ret.run]) = ErrorEvent(DestinationError)
    /\ LastStep(runs[ret.run]).exit # NoExit

\* C3: once a call has returned, every step with a failed action carries the
\* error, has neither wait nor exit nor result, and its run is terminated:
\* neither active nor completed.
C3_ActionFailure ==
    pc = "idle" =>
        \A r \in 1..Len(runs) :
            \A i \in 1..Len(runs[r].path) :
                LET step == runs[r].path[i]
                IN  step.failed =>
                        /\ \E k \in 1..Len(step.events) : step.events[k].type = "error"
                        /\ \A k \in 1..Len(step.events) :
                               step.events[k].type \notin {"msg_wait", "save_result"}
                        /\ step.exit = NoExit
                        /\ runs[r].status \notin {RunActive, RunCompleted}

\* C4: a run becomes completed exactly at the end of continueRunUntilWait with
\* an empty destination, the run active and no wait pending (or when StartFlow
\* creates it for a flow without nodes); a waiting run and a run with another
\* terminal status are never changed to completed.
C4_Completion ==
    [][ \A r \in 1..Len(runs') :
            LET isNew == r > Len(runs)
                atEnd == /\ ~isNew
                         /\ r = cur
                         /\ pc = "loop"
                         /\ destination = noDestination
                         /\ ~runs[r].wait
                         /\ runs[r].status = RunActive
            IN  /\ (runs'[r].status = RunCompleted
                       /\ (isNew \/ runs[r].status # RunCompleted)) =>
                        (atEnd \/ (isNew /\ Len(flow) = 0))
                /\ atEnd => runs'[r].status = RunCompleted
                /\ (~isNew /\ (runs[r].wait \/ runs[r].status \in Terminal)) =>
                        (runs'[r].status = RunCompleted <=> runs[r].status = RunCompleted)
      ]_vars

\* a run that went through a wait and is completed, beside an errored one
C4_Witness ==
    /\ pc = "idle"
    /\ \E r \in 1..Len(runs) :
        /\ runs[r].status = RunCompleted
        /\ Len(runs[r].path) > 1
        /\ \E i \in 1..Len(runs[r].path) :
            \E k \in 1..Len(runs[r].path[i].events) :
                runs[r].path[i].events[k] = WaitEvent

\* C5: StartFlow on a flow without nodes returns no error and a completed run
\* with an empty path, for which nothing was executed, picked or saved.
C5_EmptyFlow ==
    (Len(flow) = 0 /\ runs # <<>>) =>
        /\ pc = "idle"
        /\ ret.op = "start"
        /\ ~ret.err
        /\ \A r \in 1..Len(runs) :
            /\ runs[r].status = RunCompleted
            /\ runs[r].path = <<>>
            /\ runs[r].results = {}
            /\ runs[r].saves = 0
            /\ runs[r].picked = 0
            /\ ~runs[r].wait

\* a run started on the flow without nodes
C5_Witness ==
    /\ Len(flow) = 0
    /\ Len(runs) = 1
    /\ ret = Return("start", 1, FALSE)

\* C6: the exit stamped on a step is empty or the UUID of an exit of the
\* step's node.
C6_StepExit ==
    \A r \in 1..Len(runs) :
        \A i \in 1..Len(runs[r].path) :
            LET step == runs[r].path[i]
                node == GetNode(flow, step.node)
            IN  \/ step.exit = NoExit
                \/ \E k \in 1..Len(node.exits) : node.exits[k].uuid = step.exit

SaveEvents(step) == {k \in 1..Len(step.events) : step.events[k] = SaveResultEvent}

\* C7: every result of a run is stored under the snakified form of its name,
\* names the node whose router has that result name, and is the only result
\* of its key; the result of the last step that saved one is in the map.
C7_Results ==
    \A r \in 1..Len(runs) :
        /\ \A x \in runs[r].results :
            /\ x.key = Snakify(x.name)
            /\ HasNode(flow, x.node_uuid)
            /\ GetNode(flow, x.node_uuid).router = [present |-> TRUE, name |-> x.name]
            /\ \E i \in 1..Len(runs[r].path) :
                /\ runs[r].path[i].node = x.node_uuid
                /\ SaveEvents(runs[r].path[i]) # {}
            /\ \A y \in runs[r].results : y.key = x.key => y = x
        /\ (runs[r].path # <<>> /\ SaveEvents(LastStep(runs[r])) # {}) =>
            \E x \in runs[r].results :
                /\ x.node_uuid = LastStep(runs[r]).node
                /\ x.name = GetNode(flow, x.node_uuid).router.name

\* two nodes with different result names of the same key have saved, and the
\* map holds the later result only
C7_Witness ==
    \E r \in 1..Len(runs) :
        /\ runs[r].saves = 2
        /\ Cardinality(runs[r].results) = 1
        /\ Len(runs[r].path) = 2
        /\ runs[r].path[1].node # runs[r].path[2].node
        /\ SaveEvents(runs[r].path[1]) # {}
        /\ SaveEvents(runs[r].path[2]) # {}
        /\ \A x \in runs[r].results : x.node_uuid = runs[r].path[2].node

RECURSIVE CountSaveEvents(_)
CountSaveEvents(path) ==
    IF path = <<>> THEN 0
    ELSE Cardinality(SaveEvents(Head(path))) + CountSaveEvents(Tail(path))

\* C8: a step of the engine picks at most one exit for a run; when it picks
\* one at a node whose router has a result name, one result is saved for that
\* node and one result event logged; when the node has no router or no result
\* name, and when no exit is picked, results and result events do not change.
C8_SaveOnPick ==
    [][ \A r \in 1..Len(runs) :
            LET old == runs[r]
                new == runs'[r]
                node == GetNode(flow, LastStep(new).node)
                named == node.router.present /\ node.router.name # <<>>
                same == /\ new.results = old.results
                        /\ new.saves = old.saves
                        /\ CountSaveEvents(new.path) = CountSaveEvents(old.path)
            IN  /\ new.picked \in {old.picked, old.picked + 1}
                /\ new.picked = old.picked => same
                /\ (new.picked = old.picked + 1 /\ ~named) => same
                /\ (new.picked = old.picked + 1 /\ named) =>
                    /\ new.saves = old.saves + 1
                    /\ CountSaveEvents(new.path) = CountSaveEvents(old.path) + 1
                    /\ LastEvent(new) = SaveResultEvent
                    /\ \E x \in new.results :
                        x.node_uuid = node.uuid /\ x.name = node.router.name
      ]_vars

\* a run that picked an exit with, and an exit without, a result name
C8_Witness ==
    \E r \in 1..Len(runs) :
        /\ runs[r].picked = 2
        /\ runs[r].saves = 1
        /\ Cardinality(runs[r].results) = 1
        /\ CountSaveEvents(runs[r].path) = 1

\* C9: when an exit is picked at a node without router, the step leaves
\* through the node's first exit and the traversal goes on at that exit's
\* destination; without exits the step's exit and the destination are empty,
\* and at the empty destination the run ends without another step.
C9_NoRouter ==
    [][ /\ \A r \in 1..Len(runs) :
            LET new == runs'[r]
                step == LastStep(new)
                node == GetNode(flow, step.node)
            IN  (new.picked = runs[r].picked + 1 /\ ~node.router.present) =>
                    /\ pc' = "loop"
                    /\ cur' = r
                    /\ ~err'
                    /\ IF Len(node.exits) > 0
                       THEN /\ step.exit = node.exits[1].uuid
                            /\ destination' = node.exits[1].destination
                       ELSE /\ step.exit = NoExit
                            /\ destination' = noDestination
        /\ (pc = "loop" /\ destination = noDestination /\ ~runs[cur].wait) =>
            /\ runs'[cur].path = runs[cur].path
            /\ runs'[cur].status \in Terminal
      ]_vars

\* a step that left a node without router through the first of its exits,
\* followed by a step at that exit's destination
C9_Witness ==
    \E r \in 1..Len(runs) :
        \E i \in 1..(Len(runs[r].path) - 1) :
            LET node == GetNode(flow, runs[r].path[i].node)
            IN  /\ ~node.router.present
                /\ Len(node.exits) > 1
                /\ runs[r].path[i].exit = node.exits[1].uuid
                /\ runs[r].path[i + 1].node = node.exits[1].destination

\* C10: when the wait of the node entered has begun and has no end event,
\* the destination is empty, no exit is stamped on the step, nothing is
\* picked or saved, and the wait is pending on the active run; the call then
\* returns without error and without changing any run.
C10_WaitSuspends ==
    [][ /\ (pc = "loop" /\ Len(runs'[cur].path) = Len(runs[cur].path) + 1
              /\ LastEvent(runs'[cur]) = WaitEvent /\ ~err') =>
            /\ pc' = "loop"
            /\ destination' = noDestination
            /\ LastStep(runs'[cur]).exit = NoExit
            /\ runs'[cur].picked = runs[cur].picked
            /\ runs'[cur].saves = runs[cur].saves
            /\ runs'[cur].results = runs[cur].results
            /\ runs'[cur].wait
            /\ runs'[cur].status = RunActive
        /\ (pc = "loop" /\ destination = noDestination /\ runs[cur].wait /\ ~err) =>
            /\ pc' = "idle"
            /\ runs' = runs
            /\ ret' = Return(caller, cur, FALSE)
      ]_vars

\* a call has returned without error with the wait of the last step pending
C10_Witness ==
    /\ pc = "idle"
    /\ ~ret.err
    /\ ret.run # NoRun
    /\ runs[ret.run].wait
    /\ runs[ret.run].status = RunActive
    /\ LastEvent(runs[ret.run]) = WaitEvent
    /\ LastStep(runs[ret.run]).exit = NoExit
    /\ Len(runs[ret.run].path) = 2

\* the end of continueRunUntilWait for a resumed run that ran to completion
Completes ==
    /\ pc = "loop"
    /\ destination = noDestination
    /\ caller = "resume"
    /\ ~err
    /\ ~runs[cur].wait
    /\ runs[cur].status = RunActive

\* the events of the last step of new that the last step of old has not
Added(old, new) ==
    SubSeq(LastStep(new).events, Len(LastStep(old).events) + 1,
           Len(LastStep(new).events))

\* C11: when a resumed run runs to completion and its parent is registered
\* in the session environment, the run becomes completed and the parent is
\* resumed in the same call, on the run's session, with the flow-exit event:
\* the event is recorded on the parent's last step, no step is added for it, the wait of the parent is
\* over and the traversal goes on for the parent at the destination of the
\* exit picked at that step (or the call returns the error of the parent's
\* wait or router).  The same holds for the parent when it runs to completion.
C11_CrossFlowResume ==
    [][ (Completes /\ runs[cur].parent # NoRun /\ runs[cur].parent \in envRuns) =>
            LET p == runs[cur].parent
                old == runs[p]
                new == runs'[p]
                node == GetNode(flow, LastStep(old).node)
            IN  /\ runs'[cur].status = RunCompleted
                /\ new.session = runs[cur].session
                /\ \/ /\ new = old
                      /\ pc' = "idle"
                      /\ ret' = Return("resume", p, TRUE)
                   \/ /\ Len(new.path) = Len(old.path)
                      /\ LastStep(new).node = LastStep(old).node
                      /\ Added(old, new) # <<>>
                      /\ Head(Added(old, new)) = FlowExitEvent
                      /\ ~new.wait
                      /\ \/ /\ pc' = "idle"
                            /\ ret' = Return("resume", p, TRUE)
                         \/ /\ pc' = "loop"
                            /\ cur' = p
                            /\ caller' = "resume"
                            /\ hasStep'
                            /\ visited' = {}
                            /\ \/ destination' = noDestination
                               \/ \E k \in 1..Len(node.exits) :
                                    /\ LastStep(new).exit = node.exits[k].uuid
                                    /\ destination' = node.exits[k].destination
      ]_vars

\* one event resumed the innermost of three nested runs, which ran to
\* completion, then its parent, which ran to completion, then the parent of
\* that, which goes on at the node after its wait
C11_Witness ==
    /\ Len(runs) = 3
    /\ calls = 4
    /\ runs[3].parent = 2
    /\ runs[2].parent = 1
    /\ runs[3].status = RunCompleted
    /\ runs[2].status = RunCompleted
    /\ \E k \in 1..Len(runs[1].path[1].events) :
        runs[1].path[1].events[k] = FlowExitEvent
    /\ Len(runs[1].path) = 2
    /\ cur = 1
    /\ caller = "resume"

\* C12: while a call executes a run, no other run changes, except at the end
\* of a resumed run that ran to completion: there the run is marked completed
\* with its steps, events and results as they are, and its parent gets the
\* flow-exit event as the first new event of its last step, with no step
\* added and no action executed.  The engine goes from a run only to its
\* parent, so a run that has handed over does not change again in the call.
C12_Ordering ==
    [][ pc # "idle" =>
            /\ \A r \in 1..Len(runs) :
                (r # cur /\ runs'[r] # runs[r]) =>
                    /\ Completes
                    /\ r = runs[cur].parent
                    /\ runs'[cur] = Exit(runs[cur], RunCompleted)
                    /\ Len(runs'[r].path) = Len(runs[r].path)
                    /\ Executed(runs'[r]) = Executed(runs[r])
                    /\ Head(Added(runs[r], runs'[r])) = FlowExitEvent
            /\ (pc' # "idle" /\ cur' # cur) =>
                    /\ Completes
                    /\ cur' = runs[cur].parent
                    /\ runs'[cur] = Exit(runs[cur], RunCompleted)
      ]_vars

\* a child that during the resume added a step, an event and a result, and
\* its parent, which after the flow-exit event added a step and executed
\* actions
C12_Witness ==
    /\ Len(runs) = 2
    /\ runs[2].parent = 1
    /\ runs[2].status = RunCompleted
    /\ Len(runs[2].path) = 2
    /\ runs[2].results # {}
    /\ LastStep(runs[2]).executed > 0
    /\ Len(runs[1].path) = 2
    /\ \E k \in 1..Len(runs[1].path[1].events) :
        runs[1].path[1].events[k] = FlowExitEvent
    /\ LastStep(runs[1]).executed > 0

\* C13: when a resume returns with the run errored by a loop or by a missing
\* destination node and the run has a registered parent, the parent has been
\* resumed: its wait is over.
C13_ErrorPropagates ==
    (pc = "idle" /\ ret.op = "resume" /\ ret.err
       /\ runs[ret.run].status = RunErrored
       /\ LastEvent(runs[ret.run]) \in {ErrorEvent(LoopError), ErrorEvent(DestinationError)}
       /\ runs[ret.run].parent \in envRuns) =>
        ~runs[runs[ret.run].parent].wait

\* C15: when a resumed run runs to completion and its parent is not in the
\* registry of the session environment, the call returns an error for the
\* run and no other run changes; the registry changes only by AddRun, which
\* adds the run it is given, and GetRun finds a run exactly for the UUIDs in
\* the registry.
C15_OrphanRun ==
    [][ /\ (Completes /\ runs[cur].parent # NoRun
              /\ GetRun(runs[cur].parent) = NoRun) =>
                /\ pc' = "idle"
                /\ ret' = Return("resume", cur, TRUE)
                /\ \A r \in 1..Len(runs) : r # cur => runs'[r] = runs[r]
        /\ envRuns' # envRuns =>
                /\ ret.op = "start"
                /\ envRuns' = envRuns \cup {ret.run}
                /\ UNCHANGED <<runs, pc, ret, calls>>
        /\ \A uuid \in 1..Len(runs) :
                /\ uuid \in envRuns => GetRun(uuid) = uuid
                /\ uuid \notin envRuns => GetRun(uuid) = NoRun
      ]_vars

\* the flow has one node without exits; the child was resumed at it and is
\* completed, its parent was never registered and still waits, and the call
\* returned an error
C15_Witness ==
    /\ Len(flow) = 1
    /\ flow[1].exits = <<>>
    /\ pc = "idle"
    /\ Len(runs) = 2
    /\ ret = Return("resume", 2, TRUE)
    /\ runs[2].status = RunCompleted
    /\ runs[2].parent = 1
    /\ 1 \notin envRuns
    /\ 2 \in envRuns
    /\ runs[1].wait
    /\ runs[1].status = RunActive

\* C16: the language of every run that has entered a node is the language of
\* the run's contact, or the language of the flow when the contact provides
\* none.
C16_RunLanguage ==
    \A r \in 1..Len(runs) :
        runs[r].path # <<>> =>
            runs[r].language =
                IF runs[r].contact.present /\ runs[r].contact.language # NilLanguage
                THEN runs[r].contact.language
                ELSE FlowLanguage

\* C14: a ResumeFlow for a run whose last step is at a node of the flow that
\* has no wait leaves the run errored.
C14_ResumeWithoutWait ==
    [][ \A r \in 1..Len(runs) :
            (/\ pc = "idle"
             /\ calls' = calls + 1
             /\ ret'.op = "resume"
             /\ ret'.run = r
             /\ runs[r].path # <<>>
             /\ HasNode(flow, LastStep(runs[r]).node)
             /\ ~GetNode(flow, LastStep(runs[r]).node).wait) =>
                runs'[r].status = RunErrored
      ]_vars

\* a call made from a response: the request reached the server
FromResponse == call.returned = "call" /\ exchange.fault # "network"

Complete(body, n) ==
    IF n = 0 THEN body = <<>>
    ELSE /\ body # <<>>
         /\ body[1][1] = 1
         /\ body[Len(body)][2] = n
         /\ \A i \in 1..Len(body) : body[i][1] <= body[i][2]
         /\ \A i \in 1..(Len(body) - 1) : body[i + 1][1] = body[i][2] + 1

\* C18: for a call made from a response, at most maxBodyBytes + 1 bytes of
\* the body were read; when the content type is a supported one and reading
\* does not fail, a body of more than maxBodyBytes bytes gives status
\* response_error, response status "too large" and no body bytes, and a body
\* of at most maxBodyBytes bytes is recorded completely and in order.
C18_BodyCap ==
    FromResponse =>
        /\ call.read <= exchange.maxBodyBytes + 1
        /\ (call.content_type \in fetchResponseContentTypes /\ exchange.fault # "read") =>
            IF exchange.body.len > exchange.maxBodyBytes
            THEN /\ call.status = CallStatusResponseError
                 /\ call.response_status = "too large"
                 /\ call.body = <<>>
            ELSE /\ call.response_status = "read"
                 /\ Complete(call.body, exchange.body.len)

\* a body longer than what was read for sniffing, recorded from both reads
C18_Witness ==
    /\ FromResponse
    /\ call.response_status = "read"
    /\ exchange.body.len = sniffLen + 1
    /\ call.body = << <<1, sniffLen>>, <<sniffLen + 1, sniffLen + 1>> >>

\* the response has a content type of the supported set: by its header, or
\* without header by what its body looks like (an empty body looks like text)
Supported(x) ==
    IF x.header = NoHeader
    THEN x.body.len = 0 \/ x.body.kind \in {"text", "html"}
    ELSE x.header \in {"text/html; charset=utf-8", "Application/JSON"}

C20_BadHeader ==
    (FromResponse /\ exchange.fault = "none" /\ exchange.header = BadHeader) =>
        /\ call.response_status = "unsupported type"
        /\ call.body = <<>>

\* C21: a webhook Call leaves every header the caller set on the request at
\* the caller's value, and gives a header the caller did not set the value of
\* its default, when the service has one.
C21_DefaultHeaders ==
    [][(~exchange.sent /\ exchange'.sent) =>
            /\ exchange.request_header # "absent" =>
                    exchange'.request_header = exchange.request_header
            /\ (exchange.request_header = "absent" /\ exchange.default_header # "absent") =>
                    exchange'.request_header = exchange.default_header
      ]_vars

\* C22: reading an event or a modifier from JSON without a type field fails
\* with "field 'type' is required", reading one whose type is not registered
\* for its family fails with "unknown type: '<name>'", and neither produces an
\* event or a modifier.
Registered(op) == IF op = "ReadEvent" THEN RegisteredEvents ELSE RegisteredTypes
C22_TypedRead ==
    result.op \in {"ReadEvent", "ReadModifier"} =>
        /\ "type" \notin DOMAIN result.data =>
                result.err = TypeRequired /\ result.value = Nil
        /\ ("type" \in DOMAIN result.data /\ result.data.type \notin Registered(result.op)) =>
                /\ result.err = "unknown type: '" \o result.data.type \o "'"
                /\ result.value = Nil

C22_Witness ==
    /\ result.op = "ReadModifier"
    /\ result.data = [type |-> "do_the_foo", foo |-> "bar"]
    /\ result.err = "unknown type: 'do_the_foo'"

\* the asset references of the JSON of a modifier, and those the assets lack
AssetReferences(data) ==
    CASE data.type = "channel" -> <<Reference("channel", data.channel)>>
      [] data.type = "field" -> <<Reference("field", data.field)>>
      [] data.type = "groups" -> References("group", data.groups)
      [] OTHER -> <<>>
Known(a, ref) ==
    CASE ref.type = "channel" -> ref.id \in a.channels
      [] ref.type = "field" -> ref.id \in a.fields
      [] ref.type = "group" -> ref.id \in a.groups
Unresolved(a, data) == SelectSeq(AssetReferences(data), LAMBDA ref : ~Known(a, ref))
ReadsModifier ==
    /\ result'.op = "ReadModifier"
    /\ result'.applied = 0
    /\ "type" \in DOMAIN result'.data
    /\ <<result, missing>>' # <<result, missing>>

\* C23: ReadModifier on a channel, field or groups modifier none of whose
\* asset references is known to the assets returns no modifier and
\* ErrNoModifier, and calls the missing callback with each reference, in order.
C23_NoModifier ==
    [][(/\ ReadsModifier
        /\ AssetReferences(result'.data) # <<>>
        /\ Unresolved(assets, result'.data) = AssetReferences(result'.data)) =>
            /\ result'.value = Nil
            /\ result'.err = ErrNoModifier
            /\ missing' = missing \o AssetReferences(result'.data)
      ]_vars

C23_Witness ==
    /\ result.op = "ReadModifier"
    /\ result.data = [type |-> "groups", modification |-> "add",
                      groups |-> <<"losers", "winners">>]
    /\ assets.groups = {}
    /\ result.err = ErrNoModifier
    /\ missing = <<Reference("group", "losers"), Reference("group", "winners")>>

\* C24: ReadModifier on a groups modifier of which at least one group is
\* known to the assets returns, without error, the groups modifier of the
\* known groups, in their order, and calls the missing callback with each
\* unknown group.
C24_GroupsSubset ==
    [][(/\ ReadsModifier
        /\ result'.data.type = "groups"
        /\ \E i \in 1..Len(result'.data.groups) : result'.data.groups[i] \in assets.groups) =>
            /\ result'.err = NoError
            /\ result'.value.type = "groups"
            /\ result'.value.modification = result'.data.modification
            /\ result'.value.groups = SelectIn(result'.data.groups, assets.groups)
            /\ missing' = missing \o Unresolved(assets, result'.data)
      ]_vars

C24_Witness ==
    /\ result.op = "ReadModifier"
    /\ result.data = [type |-> "groups", modification |-> "add",
                      groups |-> <<"losers", "winners">>]
    /\ result.value = [type |-> "groups", modification |-> "add", groups |-> <<"winners">>]
    /\ missing = <<Reference("group", "losers")>>

\* the contact already is as the modifier wants it
InEffect(m, c) ==
    CASE m.type = "channel" -> c.channel = m.channel
      [] m.type = "field" -> c.fields[m.field] = m.value
      [] m.type = "groups" /\ m.modification = "add" -> SeqToSet(m.groups) \subseteq c.groups
      [] m.type = "groups" /\ m.modification = "remove" -> SeqToSet(m.groups) \cap c.groups = {}
      [] m.type = "language" -> c.language = m.language
      [] m.type = "name" -> c.name = m.name
Applies ==
    /\ result.op = "ReadModifier"
    /\ result'.op = "ReadModifier"
    /\ result'.applied = result.applied + 1

\* C25: applying a modifier emits an event exactly when it changes the
\* contact: if the contact already is as the modifier wants it, the contact
\* is unchanged and nothing is emitted; otherwise the contact becomes as the
\* modifier wants it and the one event of that change is added to the log; a
\* second application in a row emits nothing.
C25_ApplyEmitsOnChange ==
    [][Applies =>
        LET m == result.value
        IN  /\ (contact' # contact) <=> (log' # log)
            /\ InEffect(m, contact) => (contact' = contact /\ log' = log)
            /\ ~InEffect(m, contact) =>
                    /\ contact' # contact
                    /\ Len(log') = Len(log) + 1
                    /\ SubSeq(log', 1, Len(log)) = log
                    /\ log'[Len(log')].type = "contact_" \o m.type \o "_changed"
            /\ InEffect(m, contact')
            /\ result.applied > 0 => (contact' = contact /\ log' = log)
      ]_vars

C25_Witness ==
    /\ result.op = "ReadModifier"
    /\ result.applied = 2
    /\ result.value = [type |-> "groups", modification |-> "add", groups |-> <<"winners">>]
    /\ log = <<ContactGroupsChangedEvent(<<"winners">>, <<>>)>>
    /\ contact.groups = {"winners"}

Executes == result'.op = "Execute" /\ <<result, log>>' # <<result, log>>

\* C29: the set-preferred-channel action executed in a run without a contact
\* adds one error event to the log and no channel-changed event, and returns
\* no error; executed with a contact it adds one channel-changed event for
\* its channel.
C29_PreconditionRecoverable ==
    [][Executes =>
        /\ result'.err = NoError
        /\ contact = NoContact =>
                log' = Append(log, ErrorEvent(ContactRequired))
        /\ contact # NoContact =>
                log' = Append(log, ContactChannelChangedEvent(result'.data))
      ]_vars

C29_Witness ==
    /\ result.op = "Execute"
    /\ contact = NoContact
    /\ log = <<ErrorEvent(ContactRequired), ErrorEvent(ContactRequired)>>

\* the place of the first element of a list that satisfies a test
First(q, Test(_)) == CHOOSE i \in 1..Len(q) : Test(q[i]) /\ \A j \in 1..(i - 1) : ~Test(q[j])
SameAsset(a, b) == a.type = b.type /\ a.id = b.id

\* C26: NewDependencies returns one dependency for each distinct type and
\* identity among the references, in the order of their first occurrences;
\* without session assets no dependency is missing, and with session assets a
\* dependency is missing exactly when it is no contact and its identity is
\* not among the assets of its type.
C26_Dependencies ==
    result.op = "NewDependencies" =>
        LET refs == args.refs
            deps == result.value
            at(i) == First(refs, LAMBDA r : SameAsset(r, deps[i].reference))
        IN  /\ \A i \in 1..Len(refs) : \E j \in 1..Len(deps) :
                    SameAsset(refs[i], deps[j].reference)
            /\ \A i \in 1..Len(deps) :
                    /\ \E j \in 1..Len(refs) : SameAsset(refs[j], deps[i].reference)
                    /\ deps[i].reference = refs[at(i)]
                    /\ deps[i].type = deps[i].reference.type
                    /\ \A j \in 1..Len(deps) : i < j => at(i) < at(j)
                    /\ \A j \in 1..Len(deps) :
                            SameAsset(deps[i].reference, deps[j].reference) => i = j
                    /\ args.sa = NilAssets => ~deps[i].missing
                    /\ args.sa # NilAssets =>
                            (deps[i].missing <=>
                                (/\ deps[i].type # "contact"
                                 /\ deps[i].reference.id \notin args.sa[deps[i].type]))

C26_Witness ==
    /\ result.op = "NewDependencies"
    /\ Len(args.refs) = 3
    /\ Len(result.value) = 2
    /\ args.sa # NilAssets
    /\ result.value[1].type = "contact" /\ ~result.value[1].missing
    /\ result.value[2].type = "group" /\ result.value[2].missing

\* the lists of a result spec of NewResultSpecs, for the extracted results
\* with its key: the name is that of the first of them, every category of
\* theirs is among its categories up to case and every category of the spec
\* is one of theirs, and its nodes are theirs, each once, in the order of
\* their first occurrences
MergedFrom(spec, results) ==
    LET mine == SelectSeq(results, LAMBDA r : r.info.key = spec.key)
        at(n) == First(mine, LAMBDA r : r.node = n)
    IN  /\ mine # <<>>
        /\ spec.name = mine[1].info.name
        /\ \A i \in 1..Len(mine) : \A j \in 1..Len(mine[i].info.categories) :
                \E k \in 1..Len(spec.categories) :
                    ToLower(spec.categories[k]) = ToLower(mine[i].info.categories[j])
        /\ \A k \in 1..Len(spec.categories) :
                \E i \in 1..Len(mine) : \E j \in 1..Len(mine[i].info.categories) :
                    spec.categories[k] = mine[i].info.categories[j]
        /\ {spec.node_uuids[k] : k \in 1..Len(spec.node_uuids)} =
                {mine[i].node : i \in 1..Len(mine)}
        /\ \A k, l \in 1..Len(spec.node_uuids) :
                k < l => at(spec.node_uuids[k]) < at(spec.node_uuids[l])
NoCaseDuplicates(categories) ==
    \A k, l \in 1..Len(categories) :
        ToLower(categories[k]) = ToLower(categories[l]) => k = l
InKeyOrder(specs, results) ==
    LET at(key) == First(results, LAMBDA r : r.info.key = key)
    IN  /\ \A i \in 1..Len(results) : \E k \in 1..Len(specs) :
                specs[k].key = results[i].info.key
        /\ \A k, l \in 1..Len(specs) : k < l => at(specs[k].key) < at(specs[l].key)

\* C27: NewResultSpecs returns one spec for each distinct key of the
\* extracted results, in the order of the keys' first occurrences (none for
\* no results); a spec has the name of the first result with its key, the
\* categories of all results with its key with no two of them equal up to
\* case, and the nodes of those results, each once, in the order of their
\* first occurrences.
C27_ResultSpecs ==
    result.op = "NewResultSpecs" =>
        /\ InKeyOrder(result.value, args.results)
        /\ \A k \in 1..Len(result.value) :
                /\ MergedFrom(result.value[k], args.results)
                /\ NoCaseDuplicates(result.value[k].categories)

\* C28: the output of Snakify has no upper-case letter, no character other
\* than letters, digits and underscores, no space at either end, and no two
\* underscores in a row.
C28_Snakify ==
    result.op = "Snakify" =>
        LET out == result.value
        IN  /\ \A i \in 1..Len(out) :
                    /\ out[i] = LowerChar(out[i])
                    /\ out[i] \in Letters \cup Digits \cup {"_"}
            /\ \A i \in 1..(Len(out) - 1) : ~(out[i] = "_" /\ out[i + 1] = "_")

\* C30: XDict.Get reports found exactly when a key of the dict equals the key
\* up to case, and a lookup repeated on the same dict with the same key
\* returns the value it returned before.
C30_DictGet ==
    [][(result'.op = "Get") =>
        /\ result'.found <=>
                \E k \in DOMAIN args.x : ToLower(k) = ToLower(args.key)
        /\ result.op = "Get" => result'.value = result.value
      ]_vars

\* the loop of continueRunUntilWait enters a node in this step
Enters ==
    /\ pc = "loop"
    /\ destination # noDestination
    /\ Len(runs'[cur].path) = Len(runs[cur].path) + 1

\* C31: the event a continuation is called with is the first event of the
\* first step it enters, logged before any action leaves a trace, and is
\* handed to no later node: once a node has been entered the engine holds no
\* event, and a step entered without one does not start with an incoming event.
C31_EventOnFirstStep ==
    [][ Enters =>
            LET step == LastStep(runs'[cur])
            IN  /\ event # NoEvent =>
                    /\ visited = {}
                    /\ step.events # <<>>
                    /\ step.events[1] = event
                /\ event = NoEvent =>
                    (step.events = <<>> \/ step.events[1].type # MsgEvent.type)
                /\ visited # {} => event = NoEvent
                /\ event' = NoEvent
      ]_vars

\* a start with an input that has gone on to a second node: the input is on
\* the first step and not on the second
C31_Witness ==
    /\ pc = "loop"
    /\ caller = "start"
    /\ Len(runs[cur].path) = 2
    /\ runs[cur].input = MsgEvent
    /\ runs[cur].path[1].events # <<>>
    /\ runs[cur].path[1].events[1] = MsgEvent
    /\ runs[cur].path[1].executed > 0
    /\ event = NoEvent

\* the step has a wait that began and ended at once with an end event
EndedAtOnce(step) ==
    \E k \in 1..(Len(step.events) - 1) :
        step.events[k] = WaitEvent /\ step.events[k + 1] = MsgEvent

\* C32: the visited set is cleared on every wait: a continuation that follows
\* a resume starts with no node visited, and once a node's wait has ended at
\* once with an end event no node entered before that node counts as visited.
C32_VisitedClearedOnWait ==
    [][ /\ (pc' = "loop" /\ caller' = "resume" /\ (pc = "idle" \/ cur' # cur)) =>
            visited' = {}
        /\ (Enters /\ EndedAtOnce(LastStep(runs'[cur]))) =>
            visited' \subseteq {destination}
      ]_vars

\* the driver calls ResumeFlow in this step
Resumes ==
    /\ pc = "idle"
    /\ calls' = calls + 1
    /\ Len(runs') = Len(runs)

\* the run a ResumeFlow step resumes
Resumed == IF pc' = "loop" THEN cur' ELSE ret'.run

\* the destination of the exit of node uuid that has the UUID exitUUID
DestinationOf(uuid, exitUUID) ==
    LET exits == GetNode(flow, uuid).exits
    IN  IF \E k \in 1..Len(exits) : exits[k].uuid = exitUUID
        THEN exits[CHOOSE k \in 1..Len(exits) : exits[k].uuid = exitUUID].destination
        ELSE noDestination

\* C33: a resume either changes no step, picks no exit and returns an error
\* (the wait's End failed), or it records the resume event exactly once on the
\* run's existing last step, followed only by what the router adds, stamps the
\* exit on that same step without adding a step, and then continues at the
\* destination of the exit stamped.
C33_ResumeOnLastStep ==
    [][ Resumes =>
            LET old == runs[Resumed]
                new == runs'[Resumed]
                n == Len(old.path)
                before == old.path[n].events
                after == new.path[n].events
            IN  IF new.path = old.path
                THEN /\ pc' = "idle"
                     /\ ret'.err
                     /\ new.picked = old.picked
                     /\ new.saves = old.saves
                ELSE /\ Len(new.path) = n
                     /\ \A i \in 1..(n - 1) : new.path[i] = old.path[i]
                     /\ Len(after) > Len(before)
                     /\ SubSeq(after, 1, Len(before) + 1) = Append(before, MsgEvent)
                     /\ \A k \in (Len(before) + 2)..Len(after) :
                            after[k].type \in {"save_result", "error"}
                     /\ ~new.wait
                     /\ new.path[n].executed = old.path[n].executed
                     /\ pc' = "loop" =>
                            /\ destination' = DestinationOf(old.path[n].node, new.path[n].exit)
                            /\ hasStep'
                     /\ DestinationOf(old.path[n].node, new.path[n].exit) # noDestination =>
                            pc' = "loop"
      ]_vars

\* a run resumed at its first step, with the exit stamped on that step and the
\* traversal about to continue at the exit's destination
C33_Witness ==
    /\ pc = "loop"
    /\ caller = "resume"
    /\ visited = {}
    /\ Len(runs[cur].path) = 1
    /\ LastStep(runs[cur]).events = <<WaitEvent, MsgEvent>>
    /\ LastStep(runs[cur]).exit # NoExit
    /\ destination = DestinationOf(LastStep(runs[cur]).node, LastStep(runs[cur]).exit)
    /\ destination # noDestination

\* the nodes of the last k steps of a run
LastNodes(run, k) ==
    {run.path[i].node : i \in (Len(run.path) - k + 1)..Len(run.path)}

\* C34: within one continuation no node is entered twice.  A continuation
\* begins with no node visited; each step it appends is for a node not yet
\* visited, which then counts as visited; so the steps appended so far are the
\* last steps of the path, one per visited node, and there are never more of
\* them than the flow has nodes.
C34_DistinctNodes ==
    [][ /\ (pc' = "loop" /\ (pc = "idle" \/ cur' # cur)) => visited' = {}
        /\ pc \in {"loop", "break"} =>
            /\ Cardinality(visited) <= Len(runs[cur].path)
            /\ Cardinality(visited) <= Len(flow)
            /\ LastNodes(runs[cur], Cardinality(visited)) = visited
        /\ (pc = "loop" /\ cur' = cur) =>
            IF Len(runs'[cur].path) # Len(runs[cur].path)
            THEN /\ Enters
                 /\ destination \notin visited
                 /\ LastStep(runs'[cur]).node = destination
                 /\ visited' = visited \cup {destination}
            ELSE visited' = visited
      ]_vars

\* a resumed run that came back to the node it had waited at: its path names
\* that node twice, the steps of the continuation name two distinct nodes
C34_Witness ==
    /\ pc = "loop"
    /\ caller = "resume"
    /\ Len(runs[cur].path) = 3
    /\ runs[cur].path[1].node = runs[cur].path[3].node
    /\ Cardinality(visited) = 2

\* C35: every call of StartFlow and of ResumeFlow returns: whenever the engine
\* is inside a call, whatever the flow graph and however long the chain of
\* parent runs to resume, it eventually is idle again.
C35_Termination == (pc # "idle") ~> (pc = "idle")

\* a resume that went up a chain of three runs and returned, on a flow with a
\* cycle
C35_Witness ==
    /\ pc = "idle"
    /\ ret.op = "resume"
    /\ Len(runs) = 3
    /\ \A r \in 1..3 : runs[r].status = RunCompleted
    /\ \E i \in 1..Len(flow), j \in 1..Len(flow) :
        /\ j <= i
        /\ \E k \in 1..Len(flow[i].exits) : flow[i].exits[k].destination = flow[j].uuid

\* C36: while the engine executes a run that has a parent, the parent changes
\* only in a step of a resume that leaves the child completed; and when the
\* resumed child has stopped at another wait, the call returns for the child
\* with the parent exactly as it was: no flow-exit event, no step, no result.
C36_ParentWaitsForChild ==
    [][ (pc # "idle" /\ runs[cur].parent # NoRun) =>
            LET parent == runs[cur].parent
            IN  /\ runs'[parent] # runs[parent] =>
                    /\ caller = "resume"
                    /\ IsComplete(runs'[cur])
                /\ (LoopEnded /\ caller = "resume" /\ runs[cur].wait) =>
                    /\ pc' = "idle"
                    /\ ret' = Return("resume", cur, err)
                    /\ runs'[parent] = runs[parent]
                    /\ runs'[cur].wait
      ]_vars

\* a resumed child that went through a second node and waits again, with its
\* parent still waiting for it
C36_Witness ==
    /\ pc = "idle"
    /\ ret = Return("resume", 2, FALSE)
    /\ runs[2].parent = 1
    /\ runs[2].wait
    /\ Len(runs[2].path) = 3
    /\ runs[1].wait
    /\ runs[1].status = RunActive
    /\ LastEvent(runs[1]) = WaitEvent

\* the node entered in this step got as far as its router: no action failed
\* and its wait, if it has one, ended
RouterAsked ==
    /\ Enters
    /\ GetNode(flow, destination).router.present
    /\ ~LastStep(runs'[cur]).failed
    /\ GetNode(flow, destination).wait => EndedAtOnce(LastStep(runs'[cur]))

\* C37: when the router of the node entered, or resumed, is asked and picks no
\* exit (PickRoute returned an error), the route error is the last event of
\* the step and the run is errored, nothing is saved and no result event is
\* logged whether or not the router has a result name, the traversal has no
\* destination left, and the call returns the error without entering a node.
C37_RouteError ==
    [][ /\ (RouterAsked /\ runs'[cur].picked = runs[cur].picked) =>
            /\ LastEvent(runs'[cur]) = ErrorEvent(RouteError)
            /\ runs'[cur].status = RunErrored
            /\ runs'[cur].saves = runs[cur].saves
            /\ runs'[cur].results = runs[cur].results
            /\ CountSaveEvents(runs'[cur].path) = CountSaveEvents(runs[cur].path)
            /\ destination' = noDestination
            /\ err'
        /\ (Resumes /\ runs'[Resumed].path # runs[Resumed].path
              /\ GetNode(flow, LastStep(runs[Resumed]).node).router.present
              /\ runs'[Resumed].picked = runs[Resumed].picked) =>
            /\ LastEvent(runs'[Resumed]) = ErrorEvent(RouteError)
            /\ runs'[Resumed].status = RunErrored
            /\ runs'[Resumed].saves = runs[Resumed].saves
            /\ runs'[Resumed].results = runs[Resumed].results
            /\ CountSaveEvents(runs'[Resumed].path) = CountSaveEvents(runs[Resumed].path)
            /\ pc' = "idle"
            /\ ret'.err
        /\ (pc = "loop" /\ destination = noDestination
              /\ LastEvent(runs[cur]) = ErrorEvent(RouteError)) =>
            /\ pc' = "idle"
            /\ ret' = Return(caller, cur, TRUE)
            /\ runs'[cur] = runs[cur]
      ]_vars

\* a call that returned the error of a router with a result name: the error
\* is on the step and there is no result
C37_Witness ==
    /\ pc = "idle"
    /\ ret.err
    /\ ret.run # NoRun
    /\ LastEvent(runs[ret.run]) = ErrorEvent(RouteError)
    /\ GetNode(flow, LastStep(runs[ret.run]).node).router.name # <<>>
    /\ runs[ret.run].results = {}
    /\ runs[ret.run].status = RunErrored

\* the exit stamped on the step is not an exit of the step's node
UnknownExit(step) ==
    /\ step.exit # NoExit
    /\ \A k \in 1..Len(GetNode(flow, step.node).exits) :
           GetNode(flow, step.node).exits[k].uuid # step.exit

\* C38: when the router picked an exit UUID that is no exit of the node, the
\* call returns an error, the step of that node is the last of the path (no
\* further node was entered), and the run is not completed.
C38_UnknownExit ==
    (pc = "idle" /\ ret.run # NoRun /\ runs[ret.run].path # <<>>
       /\ UnknownExit(LastStep(runs[ret.run]))) =>
        /\ ret.err
        /\ runs[ret.run].status # RunCompleted

\* C39: a resume of a run without steps returns no error and leaves the run
\* as it was; a resume of a run whose last step names a node that the flow no
\* longer has returns an error at once, with that error added to the last
\* step and nothing else: no step added, no exit stamped, the wait not ended,
\* no exit picked and no result saved.
C39_NothingToResume ==
    [][ Resumes =>
            LET old == runs[Resumed]
                new == runs'[Resumed]
            IN  /\ old.path = <<>> =>
                    /\ pc' = "idle"
                    /\ ~ret'.err
                    /\ new = old
                /\ (old.path # <<>> /\ ~HasNode(flow, LastStep(old).node)) =>
                    /\ pc' = "idle"
                    /\ ret'.err
                    /\ Len(new.path) = Len(old.path)
                    /\ \A i \in 1..(Len(old.path) - 1) : new.path[i] = old.path[i]
                    /\ LastStep(new).events =
                           Append(LastStep(old).events, ErrorEvent(NodeError))
                    /\ LastStep(new).exit = LastStep(old).exit
                    /\ LastStep(new).executed = LastStep(old).executed
                    /\ new.wait = old.wait
                    /\ new.picked = old.picked
                    /\ new.saves = old.saves
                    /\ new.results = old.results
      ]_vars

\* a run resumed after the node it waited at was taken out of the flow
C39_Witness ==
    /\ pc = "idle"
    /\ ret.op = "resume"
    /\ ret.err
    /\ ~HasNode(flow, LastStep(runs[ret.run]).node)
    /\ LastEvent(runs[ret.run]) = ErrorEvent(NodeError)
    /\ LastStep(runs[ret.run]).exit = NoExit
    /\ runs[ret.run].wait

\* C40: Save is all-or-nothing.  It returns an error exactly when the raw
\* value does not parse for the field's value type, which is always so for
\* the location types and never for text, and then the map has the entries it
\* had; otherwise the map has the new value under the field's key and every
\* other entry as it was.
C40_SaveAllOrNothing ==
    result.op = "Save" =>
        LET field == args.field
            parsed == ParseValue(field, args.raw)
        IN  /\ result.err = parsed.err
            /\ field.valueType \in
                   {FieldValueTypeWard, FieldValueTypeDistrict, FieldValueTypeState} =>
                       result.err
            /\ field.valueType = FieldValueTypeText => ~result.err
            /\ result.err => result.value = args.values
            /\ ~result.err =>
                /\ DOMAIN result.value = DOMAIN args.values \cup {field.key}
                /\ \A k \in DOMAIN args.values :
                       k # field.key => result.value[k] = args.values[k]
                /\ result.value[field.key].field = field
                /\ result.value[field.key].value = parsed.value
                /\ result.value[field.key].createdOn > 0

\* a save of a value that is no decimal for a decimal field that already has
\* a value: the error is returned and the old value is still there
C40_Witness ==
    /\ result.op = "Save"
    /\ result.err
    /\ args.field.valueType = FieldValueTypeDecimal
    /\ args.raw = <<"1", ".", ".">>
    /\ args.field.key \in DOMAIN args.values
    /\ result.value[args.field.key].createdOn = 0

====
